---- MODULE Spec2Model ----
(***************************************************************************)
(* binary-packet: schema-driven binary codec (src/src/index.ts, latest     *)
(* revision at lines 591-1580, and src/src/buffers.ts).                    *)
(*                                                                         *)
(* A buffer is a sequence of bytes; byte offset o of the program is index  *)
(* o + 1 of the sequence.  A JavaScript string is the sequence of its      *)
(* UTF-16 code units.  A packet value is a function from field names to    *)
(* field values; an optional field holds <<>> (undefined) or <<v>>.        *)
(***************************************************************************)
EXTENDS Integers, Sequences, FiniteSets, TLC

\* ------------------------------------------------------------------------
\* Field enum and BYTE_SIZE table
\* ------------------------------------------------------------------------
UNSIGNED_INT_8 == 0
UNSIGNED_INT_16 == 1
UNSIGNED_INT_32 == 2
INT_8 == 3
INT_16 == 4
INT_32 == 5
FLOAT_32 == 6
FLOAT_64 == 7

BYTE_SIZE ==
  [t \in 0..7 |-> CASE t = UNSIGNED_INT_8 -> 1
                    [] t = INT_8 -> 1
                    [] t = UNSIGNED_INT_16 -> 2
                    [] t = INT_16 -> 2
                    [] t = UNSIGNED_INT_32 -> 4
                    [] t = INT_32 -> 4
                    [] t = FLOAT_32 -> 4
                    [] t = FLOAT_64 -> 8]

\* strings of at most this many code units take the per-character encoder
SmallStringMax == 64

\* ------------------------------------------------------------------------
\* JavaScript numbers as far as define() looks at them: a finite number is
\* kept as twice its value (so halves are exact), the others by class.
\* ------------------------------------------------------------------------
Num(i) == [cls |-> "finite", twice |-> 2 * i]
Half(h) == [cls |-> "finite", twice |-> h]
NaN == [cls |-> "nan", twice |-> 0]
PosInfinity == [cls |-> "posinf", twice |-> 0]
NegInfinity == [cls |-> "neginf", twice |-> 0]

NumIsFinite(n) == n.cls = "finite"
NumLt(n, i) == \/ n.cls = "neginf"
               \/ n.cls = "finite" /\ n.twice < 2 * i
NumGt(n, i) == \/ n.cls = "posinf"
               \/ n.cls = "finite" /\ n.twice > 2 * i
NumIsInteger(n) == n.cls = "finite" /\ n.twice % 2 = 0
\* n === b for an integer b
NumEqInt(n, b) == n.cls = "finite" /\ n.twice = 2 * b
\* ToUint8 of the typed-array store: truncate toward zero, then modulo 256
NumToUint8(n) ==
  IF n.cls # "finite" THEN 0
  ELSE IF n.twice >= 0 THEN (n.twice \div 2) % 256
  ELSE (0 - ((0 - n.twice) \div 2)) % 256

\* ------------------------------------------------------------------------
\* Sequence helpers
\* ------------------------------------------------------------------------
Zeros(n) == [i \in 1..n |-> 0]
Fill(n, b) == [i \in 1..n |-> b]
Min2(a, b) == IF a < b THEN a ELSE b
Max2(a, b) == IF a > b THEN a ELSE b

\* bytes[off .. off+n-1] (0-based offset), all inside the sequence
Slice(bytes, off, n) == [i \in 1..n |-> bytes[off + i]]

\* store the bytes bs at 0-based offset off; what falls past the end of
\* the sequence is not stored
Store(bytes, off, bs) ==
  LET fits == Min2(Len(bs), Max2(Len(bytes) - off, 0))
  IN SubSeq(bytes, 1, Min2(off, Len(bytes)))
     \o SubSeq(bs, 1, fits)
     \o SubSeq(bytes, off + fits + 1, Len(bytes))

\* ------------------------------------------------------------------------
\* Big-endian integer conversions of the accessor tables.
\* ------------------------------------------------------------------------
\* two's complement big-endian bytes of the integer v in w bytes (w in 1,2,4)
IntToBytesBE(v, w) ==
  IF w = 1 THEN << v % 256 >>
  ELSE IF w = 2 THEN << (v % 65536) \div 256, v % 256 >>
  ELSE LET low == v % 16777216
           high == IF v >= 0 THEN v \div 16777216
                   ELSE 128 + (((v + 2147483647) + 1) \div 16777216)
       IN << high, low \div 65536, (low \div 256) % 256, low % 256 >>

UnsignedFromBytesBE(bs) ==
  IF Len(bs) = 1 THEN bs[1]
  ELSE IF Len(bs) = 2 THEN bs[1] * 256 + bs[2]
  ELSE ((bs[1] * 256 + bs[2]) * 256 + bs[3]) * 256 + bs[4]

SignedFromBytesBE(bs) ==
  IF Len(bs) = 1 THEN (IF bs[1] >= 128 THEN bs[1] - 256 ELSE bs[1])
  ELSE IF Len(bs) = 2
    THEN (IF bs[1] >= 128 THEN bs[1] * 256 + bs[2] - 65536
          ELSE bs[1] * 256 + bs[2])
  ELSE IF bs[1] >= 128
    THEN ((((bs[1] - 128) * 256 + bs[2]) * 256 + bs[3]) * 256 + bs[4]
          - 2147483647) - 1
  ELSE ((bs[1] * 256 + bs[2]) * 256 + bs[3]) * 256 + bs[4]

\* IEEE-754 images of the floating-point values the model uses
FloatValues == {0, 1, -2}
\* result of decoding a bit pattern that is none of the above
OtherFloat == 12345

Float32Bytes(v) ==
  CASE v = 0 -> <<0, 0, 0, 0>>
    [] v = 1 -> <<63, 128, 0, 0>>
    [] v = -2 -> <<192, 0, 0, 0>>

Float64Bytes(v) ==
  CASE v = 0 -> <<0, 0, 0, 0, 0, 0, 0, 0>>
    [] v = 1 -> <<63, 240, 0, 0, 0, 0, 0, 0>>
    [] v = -2 -> <<192, 0, 0, 0, 0, 0, 0, 0>>

FloatFromBytes(bs) ==
  IF \E v \in FloatValues :
       bs = (IF Len(bs) = 4 THEN Float32Bytes(v) ELSE Float64Bytes(v))
  THEN CHOOSE v \in FloatValues :
       bs = (IF Len(bs) = 4 THEN Float32Bytes(v) ELSE Float64Bytes(v))
  ELSE OtherFloat

IsFloat(t) == t = FLOAT_32 \/ t = FLOAT_64
IsSigned(t) == t = INT_8 \/ t = INT_16 \/ t = INT_32

\* value range accepted by the node Buffer write functions
InRange(t, v) ==
  CASE t = UNSIGNED_INT_8 -> v >= 0 /\ v <= 255
    [] t = UNSIGNED_INT_16 -> v >= 0 /\ v <= 65535
    [] t = UNSIGNED_INT_32 -> v >= 0
    [] t = INT_8 -> v >= -128 /\ v <= 127
    [] t = INT_16 -> v >= -32768 /\ v <= 32767
    [] t = INT_32 -> TRUE
    [] t = FLOAT_32 -> TRUE
    [] t = FLOAT_64 -> TRUE

\* bytes stored for value v of primitive type t
PrimBytes(t, v) ==
  IF t = FLOAT_32 THEN Float32Bytes(v)
  ELSE IF t = FLOAT_64 THEN Float64Bytes(v)
  ELSE IntToBytesBE(v, BYTE_SIZE[t])

PrimFromBytes(t, bs) ==
  IF IsFloat(t) THEN FloatFromBytes(bs)
  ELSE IF IsSigned(t) THEN SignedFromBytesBE(bs)
  ELSE UnsignedFromBytesBE(bs)

\* SET_FUNCTION[t] / SET_FUNCTION_BUF[t]: both backends throw when the
\* bytes do not fit in the buffer; the node functions also throw on a value
\* outside the type's range, the DataView ones wrap it.
SET_FUNCTION(backend, bytes, t, v, off) ==
  IF off < 0 \/ off + BYTE_SIZE[t] > Len(bytes)
    THEN [err |-> TRUE, bytes |-> bytes]
  ELSE IF backend = "node" /\ ~InRange(t, v)
    THEN [err |-> TRUE, bytes |-> bytes]
  ELSE [err |-> FALSE, bytes |-> Store(bytes, off, PrimBytes(t, v))]

\* GET_FUNCTION[t] / GET_FUNCTION_BUF[t]: both backends throw when the
\* bytes are not inside the buffer.
GET_FUNCTION(bytes, t, off) ==
  IF off < 0 \/ off + BYTE_SIZE[t] > Len(bytes)
    THEN [err |-> TRUE, value |-> 0]
  ELSE [err |-> FALSE,
        value |-> PrimFromBytes(t, Slice(bytes, off, BYTE_SIZE[t]))]

\* ------------------------------------------------------------------------
\* String codecs of src/src/buffers.ts
\* ------------------------------------------------------------------------
ReplacementChar == 65533

\* UTF-8 bytes of the code point cp
Utf8OfCodePoint(cp) ==
  IF cp < 128 THEN << cp >>
  ELSE IF cp < 2048 THEN << 192 + (cp \div 64), 128 + (cp % 64) >>
  ELSE IF cp < 65536
    THEN << 224 + (cp \div 4096), 128 + ((cp \div 64) % 64), 128 + (cp % 64) >>
  ELSE << 240 + (cp \div 262144), 128 + ((cp \div 4096) % 64),
          128 + ((cp \div 64) % 64), 128 + (cp % 64) >>

IsHighSurrogate(c) == c >= 55296 /\ c <= 56319
IsLowSurrogate(c) == c >= 56320 /\ c <= 57343

\* the UTF-8 encoder shared by TextEncoder.encodeInto and Buffer.utf8Write:
\* whole characters of str[i..] are written while they fit in cap bytes
RECURSIVE Utf8EncodeInto(_, _, _)
Utf8EncodeInto(str, i, cap) ==
  IF i > Len(str) THEN << >>
  ELSE LET c == str[i]
           pair == IsHighSurrogate(c) /\ i < Len(str)
                   /\ IsLowSurrogate(str[i + 1])
           cp == IF pair
                   THEN 65536 + (c - 55296) * 1024 + (str[i + 1] - 56320)
                 ELSE IF IsHighSurrogate(c) \/ IsLowSurrogate(c)
                   THEN ReplacementChar
                 ELSE c
           bs == Utf8OfCodePoint(cp)
       IN IF Len(bs) > cap THEN << >>
          ELSE bs \o Utf8EncodeInto(str, IF pair THEN i + 2 ELSE i + 1,
                                    cap - Len(bs))

\* encodeSmallString: one byte per code unit, the low 8 bits
EncodeSmallStringBytes(str) == [i \in 1..Len(str) |-> str[i] % 256]

IsCont(b, lo, hi) == b >= lo /\ b <= hi

\* one step of the UTF-8 decoder at index i: the code units produced and
\* the index of the next byte (invalid input gives the replacement char)
Utf8DecodeOne(bs, i) ==
  LET b == bs[i]
      n == Len(bs)
      need == IF b >= 194 /\ b <= 223 THEN 1
              ELSE IF b >= 224 /\ b <= 239 THEN 2
              ELSE IF b >= 240 /\ b <= 244 THEN 3
              ELSE 0
      lo2 == IF b = 224 THEN 160 ELSE IF b = 240 THEN 144 ELSE 128
      hi2 == IF b = 237 THEN 159 ELSE IF b = 244 THEN 143 ELSE 191
      ok2 == i + 1 <= n /\ IsCont(bs[i + 1], lo2, hi2)
      ok3 == ok2 /\ i + 2 <= n /\ IsCont(bs[i + 2], 128, 191)
      ok4 == ok3 /\ i + 3 <= n /\ IsCont(bs[i + 3], 128, 191)
      bad(k) == [units |-> << ReplacementChar >>, next |-> i + k]
  IN IF b < 128 THEN [units |-> << b >>, next |-> i + 1]
     ELSE IF need = 0 THEN bad(1)
     ELSE IF need = 1
       THEN (IF ok2 THEN [units |-> << (b - 192) * 64 + (bs[i + 1] - 128) >>,
                          next |-> i + 2]
             ELSE bad(1))
     ELSE IF need = 2
       THEN (IF ok3
               THEN [units |-> << ((b - 224) * 64 + (bs[i + 1] - 128)) * 64
                                  + (bs[i + 2] - 128) >>,
                     next |-> i + 3]
             ELSE IF ok2 THEN bad(2) ELSE bad(1))
     ELSE (IF ok4
             THEN LET cp == (((b - 240) * 64 + (bs[i + 1] - 128)) * 64
                             + (bs[i + 2] - 128)) * 64 + (bs[i + 3] - 128)
                  IN [units |-> << 55296 + ((cp - 65536) \div 1024),
                                   56320 + ((cp - 65536) % 1024) >>,
                      next |-> i + 4]
           ELSE IF ok3 THEN bad(3) ELSE IF ok2 THEN bad(2) ELSE bad(1))

RECURSIVE Utf8Decode(_, _)
Utf8Decode(bs, i) ==
  IF i > Len(bs) THEN << >>
  ELSE LET d == Utf8DecodeOne(bs, i)
       IN d.units \o Utf8Decode(bs, d.next)

HasBOM(bs) == Len(bs) >= 3 /\ bs[1] = 239 /\ bs[2] = 187 /\ bs[3] = 191

\* encodeStringIntoDataView / encodeStringIntoNodeBuffer.  The DataView
\* variant builds a Uint8Array of strlen bytes at byteOffset and throws
\* when that range leaves the buffer; the node variant stores byte by byte
\* (stores past the end are dropped) or calls utf8Write, which throws only
\* for an offset past the end and otherwise writes what fits.
encodeStringFunction(backend, bytes, byteOffset, str) ==
  LET strlen == Len(str)
      len == Len(bytes)
  IN IF backend = "dataview"
       THEN IF byteOffset + strlen > len
              THEN [err |-> TRUE, bytes |-> bytes]
            ELSE IF strlen <= SmallStringMax
              THEN [err |-> FALSE,
                    bytes |-> Store(bytes, byteOffset,
                                    EncodeSmallStringBytes(str))]
            ELSE [err |-> FALSE,
                  bytes |-> Store(bytes, byteOffset,
                                  Utf8EncodeInto(str, 1, strlen))]
     ELSE IF strlen <= SmallStringMax
       THEN LET fit == Max2(0, Min2(strlen, len - byteOffset))
            IN [err |-> FALSE,
                bytes |-> Store(bytes, byteOffset,
                                SubSeq(EncodeSmallStringBytes(str), 1, fit))]
     ELSE IF byteOffset > len THEN [err |-> TRUE, bytes |-> bytes]
     ELSE [err |-> FALSE,
           bytes |-> Store(bytes, byteOffset,
                           Utf8EncodeInto(str, 1,
                                          Min2(strlen, len - byteOffset)))]

\* decodeStringFromDataView / decodeStringFromNodeBuffer.  The DataView
\* variant throws when the range leaves the buffer and TextDecoder drops a
\* leading byte order mark; the node variant clamps the range (subarray).
\* last is the offset of the last byte looked at, -1 when there is none.
decodeStringFunction(backend, bytes, byteOffset, strlen) ==
  LET len == Len(bytes)
  IN IF backend = "dataview"
       THEN IF byteOffset + strlen > len
              THEN [err |-> TRUE, value |-> << >>, last |-> -1]
            ELSE LET bs == Slice(bytes, byteOffset, strlen)
                 IN [err |-> FALSE,
                     value |-> IF HasBOM(bs) THEN Utf8Decode(bs, 4)
                               ELSE Utf8Decode(bs, 1),
                     last |-> IF strlen = 0 THEN -1
                              ELSE byteOffset + strlen - 1]
     ELSE LET start == Min2(byteOffset, len)
              end == Min2(byteOffset + strlen, len)
          IN [err |-> FALSE,
              value |-> Utf8Decode(Slice(bytes, start, end - start), 1),
              last |-> IF end = start THEN -1 ELSE end - 1]

\* ------------------------------------------------------------------------
\* Definitions.  A field definition is a record
\*   [kind, item, type, length, flags, packet]
\* kind: "prim" (a Field number), "string" (''), "flags" ({flags}),
\* "optional" ({optional}), "packet" (a BinaryPacket), "array" ([item] or
\* [item, length]); item: the kind of an array's elements; length: the
\* second element of the array tuple, NoLength when there is none;
\* packet: <<>> or <<p>> for the BinaryPacket the field refers to.
\* A Definition is the sequence of its [name, def] pairs in declaration
\* order, which is the order Object.entries returns them in.
\* ------------------------------------------------------------------------
NoLength == -1

PrimDef(t) ==
  [kind |-> "prim", item |-> "", type |-> t, length |-> NoLength,
   flags |-> << >>, packet |-> << >>]
StringDef ==
  [kind |-> "string", item |-> "", type |-> 0, length |-> NoLength,
   flags |-> << >>, packet |-> << >>]
FlagsDef(fs) ==
  [kind |-> "flags", item |-> "", type |-> 0, length |-> NoLength,
   flags |-> fs, packet |-> << >>]
OptionalDef(p) ==
  [kind |-> "optional", item |-> "", type |-> 0, length |-> NoLength,
   flags |-> << >>, packet |-> << p >>]
PacketDef(p) ==
  [kind |-> "packet", item |-> "", type |-> 0, length |-> NoLength,
   flags |-> << >>, packet |-> << p >>]
\* FieldArray(item) is ArrayDef(item, NoLength), FieldFixedArray(item, n)
\* is ArrayDef(item, n); item is a PrimDef, StringDef or PacketDef
ArrayDef(itemDef, n) ==
  [kind |-> "array", item |-> itemDef.kind, type |-> itemDef.type,
   length |-> n, flags |-> << >>, packet |-> itemDef.packet]

Entry(name, def) == [name |-> name, def |-> def]

\* FieldFixedArray(item, length): the pair [item, length] or a RangeError
FieldFixedArray(item, length) ==
  IF NumLt(length, 0) \/ ~NumIsFinite(length)
    THEN [error |-> "RangeError", def |-> << >>]
  ELSE [error |-> "none", def |-> << [item |-> item, length |-> length] >>]

\* most flags a BitFlags field takes
MaxFlags == 8

\* FieldBitFlags that lets a ninth flag through
FieldBitFlags_OffByOne(flags) ==
  IF Len(flags) > MaxFlags + 1 THEN [error |-> "Error", def |-> << >>]
  ELSE [error |-> "none", def |-> << FlagsDef(flags) >>]

\* FieldBitFlags(flags): the object { flags } or an Error
FieldBitFlags(flags) ==
  IF Len(flags) > MaxFlags THEN [error |-> "Error", def |-> << >>]
  ELSE [error |-> "none", def |-> << FlagsDef(flags) >>]

\* field names in the order localeCompare puts them in
NameOrder == << "a", "b", "f", "m", "n", "p", "s", "x", "z" >>
NameRank(name) == CHOOSE i \in 1..Len(NameOrder) : NameOrder[i] = name
localeCompare(n1, n2) ==
  IF NameRank(n1) < NameRank(n2) THEN -1
  ELSE IF NameRank(n1) > NameRank(n2) THEN 1 ELSE 0

\* Array.prototype.sort is stable: an entry goes after the entries that do
\* not compare greater than it
RECURSIVE SortedInsert(_, _)
SortedInsert(sorted, e) ==
  IF sorted = << >> THEN << e >>
  ELSE IF localeCompare(sorted[Len(sorted)].name, e.name) <= 0
    THEN Append(sorted, e)
  ELSE Append(SortedInsert(SubSeq(sorted, 1, Len(sorted) - 1), e),
              sorted[Len(sorted)])

RECURSIVE SortPrefix(_, _)
SortPrefix(definition, n) ==
  IF n = 0 THEN << >>
  ELSE SortedInsert(SortPrefix(definition, n - 1), definition[n])

sortEntries(definition) == SortPrefix(definition, Len(definition))

\* inspectEntries: the loop body, applied to the statistics so far
InspectEntry(stats, e) ==
  LET type == e.def
  IN IF type.kind = "array"
       THEN IF type.length # NoLength
              THEN LET isString == type.item = "string"
                       itemSize == IF type.item = "packet"
                                     THEN type.packet[1].minimumByteLength
                                   ELSE IF isString THEN 2
                                   ELSE BYTE_SIZE[type.type]
                   IN [minimumByteLength |->
                         stats.minimumByteLength + type.length * itemSize,
                       stringPositions |->
                         IF isString
                           THEN [stats.stringPositions EXCEPT
                                   ![2] = Append(@, e.name)]
                         ELSE stats.stringPositions]
            ELSE [minimumByteLength |-> stats.minimumByteLength + 1,
                  stringPositions |->
                    IF type.item = "string"
                      THEN [stats.stringPositions EXCEPT
                              ![2] = Append(@, e.name)]
                    ELSE stats.stringPositions]
     ELSE IF type.kind = "packet"
       THEN [minimumByteLength |->
               stats.minimumByteLength + type.packet[1].minimumByteLength,
             stringPositions |->
               [stats.stringPositions EXCEPT
                  ![3] = Append(@, [field |-> e.name,
                                    packet |-> type.packet[1]])]]
     ELSE IF type.kind = "flags" \/ type.kind = "optional"
       THEN [minimumByteLength |-> stats.minimumByteLength + 1,
             stringPositions |-> stats.stringPositions]
     ELSE IF type.kind = "string"
       THEN [minimumByteLength |-> stats.minimumByteLength + 2,
             stringPositions |->
               [stats.stringPositions EXCEPT ![1] = Append(@, e.name)]]
     ELSE [minimumByteLength |->
             stats.minimumByteLength + BYTE_SIZE[type.type],
           stringPositions |-> stats.stringPositions]

\* inspectEntries that leaves the packet id byte out of the count
RECURSIVE InspectPrefix_NoTag(_, _)
InspectPrefix_NoTag(entries, n) ==
  IF n = 0
    THEN [minimumByteLength |-> 0,
          stringPositions |-> << << >>, << >>, << >> >>]
  ELSE InspectEntry(InspectPrefix_NoTag(entries, n - 1), entries[n])

RECURSIVE InspectPrefix(_, _)
InspectPrefix(entries, n) ==
  IF n = 0
    THEN [minimumByteLength |-> 1,
          stringPositions |-> << << >>, << >>, << >> >>]
  ELSE InspectEntry(InspectPrefix(entries, n - 1), entries[n])

\* stringPositions[1]: string fields, [2]: arrays of strings, [3]: the
\* fields that are a BinaryPacket, each with its packet
inspectEntries(entries) == InspectPrefix(entries, Len(entries))

\* the private constructor
NewBinaryPacket(packetId, definition) ==
  LET entries == sortEntries(definition)
      inspection == inspectEntries(entries)
  IN [packetId |-> packetId,
      entries |-> entries,
      minimumByteLength |-> inspection.minimumByteLength,
      stringPositions |-> inspection.stringPositions]

\* BinaryPacket.define
define(packetId, definition) ==
  IF NumLt(packetId, 0) \/ ~NumIsFinite(packetId)
    THEN [error |-> "RangeError", packet |-> << >>]
  ELSE IF NumGt(packetId, 255)
    THEN [error |-> "RangeError", packet |-> << >>]
  ELSE [error |-> "none",
        packet |-> << NewBinaryPacket(packetId, definition) >>]

\* ------------------------------------------------------------------------
\* Buffers (src/src/buffers.ts).  env.backend is "node" or "dataview";
\* env.fill is the content of memory that Buffer.allocUnsafe hands out
\* without initialising it.
\* ------------------------------------------------------------------------
\* Buffer.allocUnsafe(n) / new ArrayBuffer(n)
Alloc(env, n) == IF env.backend = "node" THEN Fill(n, env.fill) ELSE Zeros(n)

\* growDataView without the copy of the bytes after the last whole 8-byte
\* chunk
growDataView_Chunks(bytes, newByteLength) ==
  LET amountToCopy == Min2(Len(bytes), newByteLength)
      offset == (amountToCopy \div 8) * 8
  IN Store(Zeros(newByteLength), 0, SubSeq(bytes, 1, offset))

\* growDataView: 8 bytes at a time, then the remaining up to 7 bytes
growDataView(bytes, newByteLength) ==
  LET amountToCopy == Min2(Len(bytes), newByteLength)
      length8 == amountToCopy \div 8
      offset == length8 * 8
      rest == amountToCopy - offset
      copied1 == Store(Zeros(newByteLength), 0, SubSeq(bytes, 1, offset))
  IN Store(copied1, offset, SubSeq(bytes, offset + 1, offset + rest))

\* growNodeBuffer: allocUnsafe, then buffer.copy(newBuffer)
growNodeBuffer(bytes, newByteLength, fill) ==
  Store(Fill(newByteLength, fill), 0,
        SubSeq(bytes, 1, Min2(Len(bytes), newByteLength)))

growBufferFunction(env, bytes, newByteLength) ==
  IF env.backend = "node" THEN growNodeBuffer(bytes, newByteLength, env.fill)
  ELSE growDataView(bytes, newByteLength)

\* ------------------------------------------------------------------------
\* BinaryPacket.write.  The encoder state w is
\*   [err, bytes, off, byteLength, maxByteLength, grows, oob]
\* err: an exception was thrown; bytes: the buffer; off: the shared
\* offsetPointer.offset; byteLength, maxByteLength: the two by-value
\* parameters; grows: the reallocations so far as <<old, new>> lengths;
\* oob: some store was attempted past the end of the buffer.
\* ------------------------------------------------------------------------
Pow2(n) == CASE n = 0 -> 1 [] n = 1 -> 2 [] n = 2 -> 4 [] n = 3 -> 8
             [] n = 4 -> 16 [] n = 5 -> 32 [] n = 6 -> 64 [] n = 7 -> 128
             [] OTHER -> 0

\* writeFunctions[t](buffer, v, offsetPointer.offset); offset += BYTE_SIZE[t]
PutPrim(env, w, t, v) ==
  LET r == SET_FUNCTION(env.backend, w.bytes, t, v, w.off)
  IN [w EXCEPT !.err = r.err, !.bytes = r.bytes,
               !.off = w.off + BYTE_SIZE[t],
               !.oob = @ \/ w.off + BYTE_SIZE[t] > Len(w.bytes)]

\* the 2-byte length, then encodeStringFunction, of a string
PutString(env, w, str) ==
  LET w1 == PutPrim(env, w, UNSIGNED_INT_16, Len(str))
      r == encodeStringFunction(env.backend, w1.bytes, w1.off, str)
  IN IF w1.err THEN w1
     ELSE [w1 EXCEPT !.err = r.err, !.bytes = r.bytes,
                     !.off = w1.off + Len(str),
                     !.oob = @ \/ w1.off + Len(str) > Len(w1.bytes)]

\* AddAndGrow that doubles what is needed when it grows the buffer
AddAndGrow_Doubling(env, w, n) ==
  LET max == w.maxByteLength + n
      w1 == [w EXCEPT !.byteLength = @ + n, !.maxByteLength = max]
  IN IF Len(w.bytes) < max
       THEN [w1 EXCEPT !.bytes = growBufferFunction(env, w.bytes, 2 * max),
                       !.grows = Append(@, << Len(w.bytes), 2 * max >>)]
     ELSE w1

\* byteLength += n; maxByteLength += n; grow when the buffer is shorter
AddAndGrow(env, w, n) ==
  LET max == w.maxByteLength + n
      w1 == [w EXCEPT !.byteLength = @ + n, !.maxByteLength = max]
  IN IF Len(w.bytes) < max
       THEN [w1 EXCEPT !.bytes = growBufferFunction(env, w.bytes, max),
                       !.grows = Append(@, << Len(w.bytes), max >>)]
     ELSE w1

\* byteLength = offsetPointer.offset; maxByteLength = buffer.byteLength
AfterSubpacket(w) ==
  [w EXCEPT !.byteLength = w.off, !.maxByteLength = Len(w.bytes)]

RECURSIVE FlagsByte(_, _, _)
FlagsByte(flags, data, n) ==
  IF n = 0 THEN 0
  ELSE FlagsByte(flags, data, n - 1)
       + (IF data[flags[n]] THEN Pow2(n - 1) ELSE 0)

\* The loops over the elements of an array take the elements lo..hi in
\* order, the first half then the second, and stop at the first error.
RECURSIVE PutPrims(_, _, _, _, _, _)
PutPrims(env, w, t, data, lo, hi) ==
  IF lo > hi \/ w.err THEN w
  ELSE IF lo = hi THEN PutPrim(env, w, t, data[lo])
  ELSE PutPrims(env, PutPrims(env, w, t, data, lo, (lo + hi) \div 2),
                t, data, (lo + hi) \div 2 + 1, hi)

\* for (let i = 0; i < length; ++i) of the strings data[i]; reading the
\* length of a data[i] that is undefined throws
RECURSIVE PutStrings(_, _, _, _, _)
PutStrings(env, w, data, lo, hi) ==
  IF lo > hi \/ w.err THEN w
  ELSE IF lo = hi
    THEN IF lo > Len(data) THEN [w EXCEPT !.err = TRUE]
         ELSE PutString(env, w, data[lo])
  ELSE PutStrings(env, PutStrings(env, w, data, lo, (lo + hi) \div 2),
                  data, (lo + hi) \div 2 + 1, hi)

RECURSIVE write(_, _, _, _)
RECURSIVE writeEntries(_, _, _, _, _)
RECURSIVE writeEntry(_, _, _, _)
RECURSIVE writeSubpackets(_, _, _, _, _, _)

writeSubpackets(env, itemType, data, w, lo, hi) ==
  IF lo > hi \/ w.err THEN w
  ELSE IF lo = hi THEN AfterSubpacket(write(env, itemType, data[lo], w))
  ELSE writeSubpackets(env, itemType, data,
                       writeSubpackets(env, itemType, data, w,
                                       lo, (lo + hi) \div 2),
                       (lo + hi) \div 2 + 1, hi)

\* an array field: length is data.length, iterated what for...of over data
\* yields and indexed what data[i] gives, which are data itself for an array
writeArray(env, def, length, iterated, indexed, w) ==
  LET isDynamicArray == def.length = NoLength
      w1 == IF isDynamicArray
              THEN PutPrim(env, w, UNSIGNED_INT_8, length)
            ELSE w
  IN IF w1.err \/ length = 0 THEN w1
     ELSE IF def.item = "packet"
       THEN LET itemType == def.packet[1]
                w2 == IF isDynamicArray
                        THEN AddAndGrow(env, w1,
                               length * itemType.minimumByteLength)
                      ELSE w1
            IN writeSubpackets(env, itemType, iterated, w2, 1, Len(iterated))
     ELSE IF def.item = "string"
       THEN PutStrings(env, w1, indexed, 1, length)
     ELSE LET itemSize == BYTE_SIZE[def.type]
              w2 == IF isDynamicArray
                      THEN AddAndGrow(env, w1, length * itemSize)
                    ELSE w1
          IN PutPrims(env, w2, def.type, iterated, 1, Len(iterated))

writeEntry(env, def, data, w) ==
  IF def.kind = "array" THEN writeArray(env, def, Len(data), data, data, w)
  ELSE IF def.kind = "prim" THEN PutPrim(env, w, def.type, data)
  ELSE IF def.kind = "string" THEN PutString(env, w, data)
  ELSE IF def.kind = "flags"
    THEN PutPrim(env, w, UNSIGNED_INT_8,
                 FlagsByte(def.flags, data, Len(def.flags)))
  ELSE IF def.kind = "optional"
    THEN IF data # << >>
           THEN LET w1 == PutPrim(env, w, UNSIGNED_INT_8, 1)
                    w2 == AddAndGrow(env, w1,
                                     def.packet[1].minimumByteLength)
                IN IF w1.err THEN w1
                   ELSE AfterSubpacket(write(env, def.packet[1], data[1], w2))
         ELSE PutPrim(env, w, UNSIGNED_INT_8, 0)
  ELSE AfterSubpacket(write(env, def.packet[1], data, w))

writeEntries(env, pkt, dataOut, w, i) ==
  IF w.err \/ i > Len(pkt.entries) THEN w
  ELSE writeEntries(env, pkt, dataOut,
                    writeEntry(env, pkt.entries[i].def,
                               dataOut[pkt.entries[i].name], w),
                    i + 1)

write(env, pkt, dataOut, w) ==
  writeEntries(env, pkt, dataOut,
               PutPrim(env, w, UNSIGNED_INT_8, NumToUint8(pkt.packetId)), 1)

\* precalculateBufferLengthWithStrings
RECURSIVE SumStringLengths(_, _, _)
SumStringLengths(dataOut, fields, n) ==
  IF n = 0 THEN 0
  ELSE SumStringLengths(dataOut, fields, n - 1) + Len(dataOut[fields[n]])

RECURSIVE SumStringArray(_, _, _)
SumStringArray(strings, lo, hi) ==
  IF lo > hi THEN 0
  ELSE IF lo = hi THEN 2 + Len(strings[lo])
  ELSE SumStringArray(strings, lo, (lo + hi) \div 2)
       + SumStringArray(strings, (lo + hi) \div 2 + 1, hi)

RECURSIVE SumStringArrays(_, _, _)
SumStringArrays(dataOut, fields, n) ==
  IF n = 0 THEN 0
  ELSE SumStringArrays(dataOut, fields, n - 1)
       + SumStringArray(dataOut[fields[n]], 1, Len(dataOut[fields[n]]))

RECURSIVE precalculateBufferLengthWithStrings(_, _)
RECURSIVE SumSubpackets(_, _, _)
SumSubpackets(dataOut, subs, n) ==
  IF n = 0 THEN 0
  ELSE SumSubpackets(dataOut, subs, n - 1)
       + precalculateBufferLengthWithStrings(subs[n].packet,
                                             dataOut[subs[n].field])

precalculateBufferLengthWithStrings(pkt, dataOut) ==
  LET sp == pkt.stringPositions
  IN pkt.minimumByteLength
     + SumStringLengths(dataOut, sp[1], Len(sp[1]))
     + SumStringArrays(dataOut, sp[2], Len(sp[2]))
     + SumSubpackets(dataOut, sp[3], Len(sp[3]))

\* writeNodeBuffer / writeDataView: the final encoder state; the buffer
\* handed back to the caller is its bytes
writeBuffer(env, pkt, dataOut) ==
  LET byteLength == precalculateBufferLengthWithStrings(pkt, dataOut)
  IN write(env, pkt, dataOut,
           [err |-> FALSE, bytes |-> Alloc(env, byteLength), off |-> 0,
            byteLength |-> byteLength, maxByteLength |-> byteLength,
            grows |-> << >>, oob |-> FALSE])

\* new SequentialSerializer(iterable, length): items are what the iterable
\* yields, singlePass tells whether it yields them once only (an iterator
\* such as map.values()) or every time it is iterated (an array, a Set)
SequentialSerializer(items, singlePass, length) ==
  [items |-> items, singlePass |-> singlePass, length |-> length]

\* what the n-th for...of over the serializer yields
Iterated(ser, n) == IF ser.singlePass /\ n > 1 THEN << >> ELSE ser.items

\* writeNodeBuffer / writeDataView of { m: ser } by a packet whose one
\* field m is an array: precalculateBufferLengthWithStrings iterates an
\* array of strings, write then takes ser.length, iterates ser for
\* primitives and sub-packets and indexes it for strings, and a serializer
\* has no indexed elements
writeSerializerBuffer(env, pkt, ser) ==
  LET def == pkt.entries[1].def
      byteLength ==
        precalculateBufferLengthWithStrings(pkt, [m |-> Iterated(ser, 1)])
  IN writeArray(env, def, ser.length,
                Iterated(ser, IF def.item = "string" THEN 2 ELSE 1), << >>,
                PutPrim(env,
                        [err |-> FALSE, bytes |-> Alloc(env, byteLength),
                         off |-> 0, byteLength |-> byteLength,
                         maxByteLength |-> byteLength, grows |-> << >>,
                         oob |-> FALSE],
                        UNSIGNED_INT_8, NumToUint8(pkt.packetId)))

\* ------------------------------------------------------------------------
\* BinaryPacket.read.  The decoder state r is [err, off, last, tags]
\* err: "" or the error thrown ("OutOfBounds": the space check of read,
\* "TypeMismatch": the packet id check of read, "RangeError": thrown by a
\* buffer accessor); off: the shared offsetPointer.offset; last: the
\* highest offset a byte was read at, -1 when none; tags: the packet id
\* comparisons made, each [off, want, got].
\* A read returns [r, value]; value is meaningful when r.err = "".
\* The DataView read is modelled for views that start at offset 0 of
\* their ArrayBuffer and span all of it.
\* ------------------------------------------------------------------------
NoValue == << >>

Thrown(r, e) == [r |-> [r EXCEPT !.err = e], value |-> NoValue]

\* readFunctions[t](dataIn, offsetPointer.offset); offset += BYTE_SIZE[t]
GetPrim(bytes, r, t) ==
  LET g == GET_FUNCTION(bytes, t, r.off)
  IN IF g.err THEN Thrown(r, "RangeError")
     ELSE [r |-> [r EXCEPT !.off = r.off + BYTE_SIZE[t],
                           !.last = Max2(@, r.off + BYTE_SIZE[t] - 1)],
           value |-> g.value]

\* the 2-byte length, then decodeStringFunction, of a string
GetString(backend, bytes, r) ==
  LET n == GetPrim(bytes, r, UNSIGNED_INT_16)
      d == decodeStringFunction(backend, bytes, n.r.off, n.value)
  IN IF n.r.err # "" THEN n
     ELSE IF d.err THEN Thrown(n.r, "RangeError")
     ELSE [r |-> [n.r EXCEPT !.off = n.r.off + n.value,
                             !.last = Max2(@, d.last)],
           value |-> d.value]

\* flags read one bit too high
RECURSIVE FlagsOfByte_Shifted(_, _, _)
FlagsOfByte_Shifted(flags, byte, n) ==
  IF n = 0 THEN << >>
  ELSE FlagsOfByte_Shifted(flags, byte, n - 1)
       @@ (flags[n] :> ((byte \div Pow2(n)) % 2 = 1))

RECURSIVE FlagsOfByte(_, _, _)
FlagsOfByte(flags, byte, n) ==
  IF n = 0 THEN << >>
  ELSE FlagsOfByte(flags, byte, n - 1)
       @@ (flags[n] :> ((byte \div Pow2(n - 1)) % 2 = 1))

\* The loops over the elements of an array read n more elements after
\* those of a, [r, value] with the decoder state and the array so far: the
\* first half of them, then the rest, stopping at the first error.
\* array[i] = g.value, g being what the read of the element returned
Pushed(a, g) ==
  IF g.r.err # "" THEN [r |-> g.r, value |-> NoValue]
  ELSE [r |-> g.r, value |-> Append(a.value, g.value)]

RECURSIVE GetPrims(_, _, _, _)
GetPrims(bytes, a, t, n) ==
  IF n = 0 \/ a.r.err # "" THEN a
  ELSE IF n = 1 THEN Pushed(a, GetPrim(bytes, a.r, t))
  ELSE GetPrims(bytes, GetPrims(bytes, a, t, n \div 2), t, n - n \div 2)

RECURSIVE GetStrings(_, _, _, _)
GetStrings(backend, bytes, a, n) ==
  IF n = 0 \/ a.r.err # "" THEN a
  ELSE IF n = 1 THEN Pushed(a, GetString(backend, bytes, a.r))
  ELSE GetStrings(backend, bytes, GetStrings(backend, bytes, a, n \div 2),
                  n - n \div 2)

RECURSIVE read(_, _, _, _, _)
RECURSIVE readEntries(_, _, _, _, _, _, _)
RECURSIVE readEntry(_, _, _, _, _)
RECURSIVE readSubpackets(_, _, _, _, _, _)

readSubpackets(backend, itemType, bytes, a, byteLength, n) ==
  IF n = 0 \/ a.r.err # "" THEN a
  ELSE IF n = 1
    THEN Pushed(a, read(backend, itemType, bytes, a.r, byteLength))
  ELSE readSubpackets(backend, itemType, bytes,
                      readSubpackets(backend, itemType, bytes, a, byteLength,
                                     n \div 2),
                      byteLength, n - n \div 2)

\* result[name] = g.value
Assigned(g) == [r |-> g.r, value |-> g.value, set |-> TRUE]

\* the elements of an array, n being the length read or declared
readArray(backend, def, bytes, n, byteLength) ==
  IF n.r.err # ""
    \* offsetPointer.offset++ happened before the accessor threw
    THEN [r |-> [n.r EXCEPT !.off = @ + 1], value |-> NoValue, set |-> FALSE]
  ELSE Assigned(IF def.item = "packet"
                  THEN readSubpackets(backend, def.packet[1], bytes,
                                      [r |-> n.r, value |-> << >>],
                                      byteLength, n.value)
                ELSE IF def.item = "string"
                  THEN GetStrings(backend, bytes,
                                  [r |-> n.r, value |-> << >>], n.value)
                ELSE GetPrims(bytes, [r |-> n.r, value |-> << >>],
                              def.type, n.value))

\* the bit flags, g being the byte read
readFlags(def, g) ==
  IF g.r.err # "" THEN [r |-> g.r, value |-> NoValue, set |-> FALSE]
  ELSE [r |-> g.r, value |-> FlagsOfByte(def.flags, g.value, Len(def.flags)),
        set |-> TRUE]

\* the optional subpacket, h being the presence byte read
readOptional(backend, def, bytes, h, byteLength) ==
  IF h.r.err # "" THEN [r |-> h.r, value |-> NoValue, set |-> FALSE]
  ELSE IF h.value # 0
    THEN Assigned(read(backend, def.packet[1], bytes, h.r, byteLength))
  ELSE [r |-> h.r, value |-> NoValue, set |-> FALSE]

\* one iteration of the loop of read: [r, value, set]; set tells whether
\* result[name] is assigned
readEntry(backend, def, bytes, r, byteLength) ==
  IF def.kind = "array"
    THEN readArray(backend, def, bytes,
                   IF def.length # NoLength
                     THEN [r |-> r, value |-> def.length]
                   ELSE GetPrim(bytes, r, UNSIGNED_INT_8),
                   byteLength)
  ELSE IF def.kind = "prim" THEN Assigned(GetPrim(bytes, r, def.type))
  ELSE IF def.kind = "string" THEN Assigned(GetString(backend, bytes, r))
  ELSE IF def.kind = "flags"
    THEN readFlags(def, GetPrim(bytes, r, UNSIGNED_INT_8))
  ELSE IF def.kind = "optional"
    THEN readOptional(backend, def, bytes,
                      GetPrim(bytes, r, UNSIGNED_INT_8), byteLength)
  ELSE Assigned(read(backend, def.packet[1], bytes, r, byteLength))

\* the rest of the loop after entry i, g being what its iteration returned
readEntriesFrom(backend, pkt, bytes, g, byteLength, result, i) ==
  readEntries(backend, pkt, bytes, g.r, byteLength,
              IF g.r.err = "" /\ g.set
                THEN result @@ (pkt.entries[i].name :> g.value)
              ELSE result,
              i + 1)

readEntries(backend, pkt, bytes, r, byteLength, result, i) ==
  IF r.err # "" THEN [r |-> r, value |-> NoValue]
  ELSE IF i > Len(pkt.entries) THEN [r |-> r, value |-> result]
  ELSE readEntriesFrom(backend, pkt, bytes,
                       readEntry(backend, pkt.entries[i].def, bytes, r,
                                 byteLength),
                       byteLength, result, i)

\* read that moves the offset pointer past the id byte before it compares
\* the byte
read_AdvanceFirst(backend, pkt, bytes, r, byteLength) ==
  IF byteLength + r.off < pkt.minimumByteLength
    THEN Thrown(r, "OutOfBounds")
  ELSE LET g == GET_FUNCTION(bytes, UNSIGNED_INT_8, r.off)
           r1 == [r EXCEPT !.last = Max2(@, r.off),
                           !.off = r.off + 1,
                           !.tags = Append(@, [off |-> r.off,
                                               want |-> pkt.packetId,
                                               got |-> g.value])]
       IN IF g.err THEN Thrown(r, "RangeError")
          ELSE IF ~NumEqInt(pkt.packetId, g.value)
            THEN Thrown(r1, "TypeMismatch")
          ELSE readEntries(backend, pkt, bytes, r1, byteLength, << >>, 1)

\* read without the comparison of the tag byte with the packet id
read_NoTagCheck(backend, pkt, bytes, r, byteLength) ==
  IF byteLength + r.off < pkt.minimumByteLength
    THEN Thrown(r, "OutOfBounds")
  ELSE LET g == GET_FUNCTION(bytes, UNSIGNED_INT_8, r.off)
           r1 == [r EXCEPT !.last = Max2(@, r.off),
                           !.tags = Append(@, [off |-> r.off,
                                               want |-> pkt.packetId,
                                               got |-> g.value])]
       IN IF g.err THEN Thrown(r, "RangeError")
          ELSE readEntries(backend, pkt, bytes, [r1 EXCEPT !.off = r.off + 1],
                           byteLength, << >>, 1)

read(backend, pkt, bytes, r, byteLength) ==
  IF byteLength + r.off < pkt.minimumByteLength
    THEN Thrown(r, "OutOfBounds")
  ELSE LET g == GET_FUNCTION(bytes, UNSIGNED_INT_8, r.off)
           r1 == [r EXCEPT !.last = Max2(@, r.off),
                           !.tags = Append(@, [off |-> r.off,
                                               want |-> pkt.packetId,
                                               got |-> g.value])]
       IN IF g.err THEN Thrown(r, "RangeError")
          ELSE IF ~NumEqInt(pkt.packetId, g.value)
            THEN Thrown(r1, "TypeMismatch")
          ELSE readEntries(backend, pkt, bytes, [r1 EXCEPT !.off = r.off + 1],
                           byteLength, << >>, 1)

\* readNodeBuffer / readDataView(dataIn, offsetPointer, byteLength)
readBuffer(backend, pkt, bytes, offset, byteLength) ==
  read(backend, pkt, bytes,
       [err |-> "", off |-> offset, last |-> -1, tags |-> << >>],
       byteLength)

\* ------------------------------------------------------------------------
\* The earlier revision of BinaryPacket (src/src/index.ts lines 1-580):
\* primitives, dynamic arrays and nested packets only, and a write that
\* takes a fast path when the packet holds no array.  Its read is, for
\* these kinds of field, the read above.
\* ------------------------------------------------------------------------
\* the loop body of inspectEntries without the look at the nested packet
inspectFastEntry_OwnArrays(stats, def) ==
  IF def.kind = "array"
    THEN [minimumByteLength |-> stats.minimumByteLength + 1,
          canFastWrite |-> FALSE]
  ELSE IF def.kind = "packet"
    THEN [minimumByteLength |->
            stats.minimumByteLength + def.packet[1].minimumByteLength,
          canFastWrite |-> stats.canFastWrite]
  ELSE [minimumByteLength |-> stats.minimumByteLength + BYTE_SIZE[def.type],
        canFastWrite |-> stats.canFastWrite]

\* the loop body of inspectEntries
inspectFastEntry(stats, def) ==
  IF def.kind = "array"
    THEN [minimumByteLength |-> stats.minimumByteLength + 1,
          canFastWrite |-> FALSE]
  ELSE IF def.kind = "packet"
    THEN [minimumByteLength |->
            stats.minimumByteLength + def.packet[1].minimumByteLength,
          canFastWrite |->
            stats.canFastWrite /\ def.packet[1].canFastWrite]
  ELSE [minimumByteLength |-> stats.minimumByteLength + BYTE_SIZE[def.type],
        canFastWrite |-> stats.canFastWrite]

\* inspectEntries over the first n entries
RECURSIVE inspectFastEntries(_, _)
inspectFastEntries(entries, n) ==
  IF n = 0 THEN [minimumByteLength |-> 1, canFastWrite |-> TRUE]
  ELSE inspectFastEntry(inspectFastEntries(entries, n - 1), entries[n].def)

\* the private constructor, by way of define with a valid id
NewFastPacket(packetId, definition) ==
  LET entries == sortEntries(definition)
      inspection == inspectFastEntries(entries, Len(entries))
  IN [packetId |-> packetId,
      entries |-> entries,
      minimumByteLength |-> inspection.minimumByteLength,
      canFastWrite |-> inspection.canFastWrite]

\* The encoder state w has one more field here, calls: the fastWrite and
\* slowWrite calls made so far, each with the packet it was made on.
Called(w, fn, pkt) ==
  [w EXCEPT !.calls = Append(@, [fn |-> fn, packet |-> pkt])]

\* fastWrite takes every entry that is an object for a packet: on an
\* array, (def as BinaryPacket).fastWrite is not a function
RECURSIVE fastWrite(_, _, _, _)
RECURSIVE fastWriteEntries(_, _, _, _, _)
fastWriteEntries(env, pkt, dataOut, w, i) ==
  IF w.err \/ i > Len(pkt.entries) THEN w
  ELSE LET def == pkt.entries[i].def
           data == dataOut[pkt.entries[i].name]
       IN fastWriteEntries(env, pkt, dataOut,
            IF def.kind = "array" THEN [w EXCEPT !.err = TRUE]
            ELSE IF def.kind = "packet"
              THEN fastWrite(env, def.packet[1], data, w)
            ELSE PutPrim(env, w, def.type, data),
            i + 1)

fastWrite(env, pkt, dataOut, w) ==
  fastWriteEntries(env, pkt, dataOut, Called(w, "fastWrite", pkt), 1)

RECURSIVE slowWrite(_, _, _, _)
\* the id byte of a nested packet, then its slowWrite
slowWriteSubpacket(env, itemType, object, w) ==
  LET w1 == PutPrim(env, w, UNSIGNED_INT_8, NumToUint8(itemType.packetId))
  IN IF w1.err THEN w1
     ELSE AfterSubpacket(slowWrite(env, itemType, object, w1))

RECURSIVE slowWriteSubpackets(_, _, _, _, _)
slowWriteSubpackets(env, itemType, data, w, i) ==
  IF w.err \/ i > Len(data) THEN w
  ELSE slowWriteSubpackets(env, itemType, data,
                           slowWriteSubpacket(env, itemType, data[i], w),
                           i + 1)

slowWriteEntry(env, def, data, w) ==
  IF def.kind = "array"
    THEN LET length == Len(data)
             w1 == PutPrim(env, w, UNSIGNED_INT_8, length)
         IN IF w1.err \/ length = 0 THEN w1
            ELSE IF def.item = "packet"
              THEN slowWriteSubpackets(env, def.packet[1], data,
                     AddAndGrow(env, w1,
                                length * def.packet[1].minimumByteLength),
                     1)
            ELSE PutPrims(env,
                          AddAndGrow(env, w1, length * BYTE_SIZE[def.type]),
                          def.type, data, 1, length)
  ELSE IF def.kind = "packet"
    THEN slowWriteSubpacket(env, def.packet[1], data, w)
  ELSE PutPrim(env, w, def.type, data)

RECURSIVE slowWriteEntries(_, _, _, _, _)
slowWriteEntries(env, pkt, dataOut, w, i) ==
  IF w.err \/ i > Len(pkt.entries) THEN w
  ELSE slowWriteEntries(env, pkt, dataOut,
                        slowWriteEntry(env, pkt.entries[i].def,
                                       dataOut[pkt.entries[i].name], w),
                        i + 1)

slowWrite(env, pkt, dataOut, w) ==
  slowWriteEntries(env, pkt, dataOut, Called(w, "slowWrite", pkt), 1)

\* write of the earlier revision: the id byte, then one of the two paths
writeFastOrSlow(env, pkt, dataOut, w) ==
  LET w1 == PutPrim(env, w, UNSIGNED_INT_8, NumToUint8(pkt.packetId))
  IN IF w1.err THEN w1
     ELSE IF pkt.canFastWrite THEN fastWrite(env, pkt, dataOut, w1)
     ELSE slowWrite(env, pkt, dataOut,
                    [w1 EXCEPT !.byteLength = pkt.minimumByteLength,
                               !.maxByteLength = pkt.minimumByteLength])

\* writeNodeBuffer / writeDataView of the earlier revision: the buffer
\* starts minimumByteLength long
writeFastBuffer(env, pkt, dataOut) ==
  writeFastOrSlow(env, pkt, dataOut,
    [err |-> FALSE, bytes |-> Alloc(env, pkt.minimumByteLength), off |-> 0,
     byteLength |-> pkt.minimumByteLength,
     maxByteLength |-> pkt.minimumByteLength,
     grows |-> << >>, oob |-> FALSE, calls |-> << >>])

\* ------------------------------------------------------------------------
\* Bounds of the model and the inputs the actions draw from
\* ------------------------------------------------------------------------
\* longest dynamic array in a value
MaxArrayLen == 2
\* length of the fixed arrays in the definitions
FixedLen == 2

Backends == {"node", "dataview"}
\* what uninitialised memory may hold
FillBytes == {0, 90}
Envs == {[backend |-> "dataview", fill |-> 0]}
        \cup {[backend |-> "node", fill |-> b] : b \in FillBytes}

PrimValues(t) ==
  CASE t = UNSIGNED_INT_8 -> {0, 200}
    [] t = UNSIGNED_INT_16 -> {0, 513}
    [] t = UNSIGNED_INT_32 -> {0, 16909060}
    [] t = INT_8 -> {-128, 5}
    [] t = INT_16 -> {-2, 258}
    [] t = INT_32 -> {-1, 66051}
    [] t = FLOAT_32 -> {1, -2}
    [] t = FLOAT_64 -> {1, -2}

\* "" and "hi"
StringValues == {<< >>, << 104, 105 >>}

SeqsUpTo(S, n) == UNION {[1..k -> S] : k \in 0..n}

\* the values that conform to a packet, field by field
RECURSIVE PacketValues(_)
RECURSIVE FieldValues(_)
RECURSIVE EntriesValues(_, _)

FieldValues(def) ==
  IF def.kind = "array"
    THEN LET items == IF def.item = "packet" THEN PacketValues(def.packet[1])
                      ELSE IF def.item = "string" THEN StringValues
                      ELSE PrimValues(def.type)
         IN IF def.length = NoLength THEN SeqsUpTo(items, MaxArrayLen)
            ELSE [1..def.length -> items]
  ELSE IF def.kind = "prim" THEN PrimValues(def.type)
  ELSE IF def.kind = "string" THEN StringValues
  ELSE IF def.kind = "flags"
    THEN [{def.flags[i] : i \in 1..Len(def.flags)} -> BOOLEAN]
  ELSE IF def.kind = "optional"
    THEN {<< >>} \cup {<< v >> : v \in PacketValues(def.packet[1])}
  ELSE PacketValues(def.packet[1])

EntriesValues(entries, n) ==
  IF n = 0 THEN {<< >>}
  ELSE {f @@ (entries[n].name :> v) :
          f \in EntriesValues(entries, n - 1),
          v \in FieldValues(entries[n].def)}

PacketValues(pkt) == EntriesValues(pkt.entries, Len(pkt.entries))

\* the packet define returns for a valid id
Packet(id, definition) == define(Num(id), definition).packet[1]

\* packets used as sub-packets: one level, then two levels deep
SubKinds == {PrimDef(UNSIGNED_INT_8), StringDef,
             ArrayDef(PrimDef(INT_8), NoLength)}
SubPackets1 ==
  {Packet(2, << >>)} \cup {Packet(2, << Entry("s", k) >>) : k \in SubKinds}
Wrap(packets) ==
  UNION {{PacketDef(p), OptionalDef(p), ArrayDef(PacketDef(p), NoLength),
          ArrayDef(PacketDef(p), FixedLen)} : p \in packets}
SubPackets2 ==
  {Packet(3, << Entry("p", k) >>) :
     k \in Wrap({Packet(2, << Entry("s", StringDef) >>)})}

LeafKinds ==
  {PrimDef(t) : t \in 0..7}
  \cup {StringDef, FlagsDef(<< >>), FlagsDef(<< "up", "down" >>),
        ArrayDef(PrimDef(UNSIGNED_INT_8), NoLength),
        ArrayDef(PrimDef(INT_16), NoLength),
        ArrayDef(PrimDef(INT_16), FixedLen),
        ArrayDef(PrimDef(UNSIGNED_INT_8), 0),
        ArrayDef(StringDef, NoLength),
        ArrayDef(StringDef, FixedLen)}
MainKinds == LeafKinds \cup Wrap(SubPackets1 \cup SubPackets2)
CompanionKinds == {PrimDef(UNSIGNED_INT_8), StringDef}

\* a definition declares a main field "m" of any kind, alone or with a
\* companion field that sorts before ("a") or after ("z") it, in either
\* declaration order
Definitions ==
  {<< >>}
  \cup {<< Entry("m", k) >> : k \in MainKinds}
  \cup UNION {{<< Entry(c, ck), Entry("m", k) >>,
               << Entry("m", k), Entry(c, ck) >>} :
                k \in MainKinds, c \in {"a", "z"}, ck \in CompanionKinds}

\* packet ids: valid, out of range, fractional, not finite
PacketIds == {Num(-1), Num(0), Num(1), Num(7), Num(255), Num(256),
              Half(3), Half(-1), Half(511), NaN, PosInfinity, NegInfinity}
TopId == Num(7)

\* the arguments of the calls of define
DefineInputs ==
  {[packetId |-> TopId, definition |-> d] : d \in Definitions}
  \cup {[packetId |-> n, definition |-> << >>] : n \in PacketIds}

\* the same fields declared in another order (the same order when there
\* is no other)
Orderings(seq) ==
  {[i \in 1..Len(seq) |-> seq[p[i]]] :
     p \in {q \in [1..Len(seq) -> 1..Len(seq)] :
              \A i, j \in 1..Len(seq) : q[i] = q[j] => i = j}}
OtherOrders(seq) ==
  IF Orderings(seq) = {seq} THEN {seq} ELSE Orderings(seq) \ {seq}

\* ------------------------------------------------------------------------
\* BinaryPacket.visit: [err, calls]; calls are the handler invocations in
\* order, each [index, value]: the position of the visitor in the list
\* and the packet its handler was given
\* ------------------------------------------------------------------------
\* what a visit that does not return after a match does with the rest
VisitedThen(i, d, rest) ==
  IF d.r.err # "" THEN [err |-> d.r.err, calls |-> << >>]
  ELSE [err |-> rest.err,
        calls |-> << [index |-> i, value |-> d.value] >> \o rest.calls]

\* return onVisit(Packet.read(...)), d being what read returned: the
\* handler runs unless read threw
Visited(i, d) ==
  IF d.r.err # "" THEN [err |-> d.r.err, calls |-> << >>]
  ELSE [err |-> "", calls |-> << [index |-> i, value |-> d.value] >>]

\* visit that goes on through the list after a match
RECURSIVE visit_EveryMatch(_, _, _, _)
visit_EveryMatch(backend, bytes, visitors, i) ==
  IF i > Len(visitors) THEN [err |-> "", calls |-> << >>]
  ELSE LET g == GET_FUNCTION(bytes, UNSIGNED_INT_8, 0)
       IN IF g.err THEN [err |-> "RangeError", calls |-> << >>]
          ELSE IF NumEqInt(visitors[i].packetId, g.value)
            THEN VisitedThen(i, readBuffer(backend, visitors[i], bytes, 0,
                                           Len(bytes)),
                             visit_EveryMatch(backend, bytes, visitors, i + 1))
          ELSE visit_EveryMatch(backend, bytes, visitors, i + 1)

\* visit that takes the last visitor of the list whose id matches
RECURSIVE visit_LastMatch(_, _, _, _)
visit_LastMatch(backend, bytes, visitors, i) ==
  IF i > Len(visitors) THEN [err |-> "", calls |-> << >>]
  ELSE LET g == GET_FUNCTION(bytes, UNSIGNED_INT_8, 0)
       IN IF g.err THEN [err |-> "RangeError", calls |-> << >>]
          ELSE IF /\ NumEqInt(visitors[i].packetId, g.value)
                  /\ \A j \in (i + 1)..Len(visitors) :
                       ~NumEqInt(visitors[j].packetId, g.value)
            THEN Visited(i, readBuffer(backend, visitors[i], bytes, 0,
                                       Len(bytes)))
          ELSE visit_LastMatch(backend, bytes, visitors, i + 1)

RECURSIVE visit(_, _, _, _)
visit(backend, bytes, visitors, i) ==
  IF i > Len(visitors) THEN [err |-> "", calls |-> << >>]
  ELSE LET g == GET_FUNCTION(bytes, UNSIGNED_INT_8, 0)
       IN IF g.err THEN [err |-> "RangeError", calls |-> << >>]
          ELSE IF NumEqInt(visitors[i].packetId, g.value)
            THEN Visited(i, readBuffer(backend, visitors[i], bytes, 0,
                                       Len(bytes)))
          ELSE visit(backend, bytes, visitors, i + 1)

\* visitNodeBuffer / visitDataView(buffer, ...visitors)
visitBuffer(backend, bytes, visitors) == visit(backend, bytes, visitors, 1)

\* ------------------------------------------------------------------------
\* State
\* ------------------------------------------------------------------------
VARIABLES
  pc,             \* "idle", "defineFailed", "defined", "written", "read",
                  \* "received", "readAt", "listening", "visited",
                  \* "declared", "readByte", "miscounted", "serialized",
                  \* "shared", "allocated", "grown", "fastDefined",
                  \* "fastWritten", "fastRead", "visitedWith", "laid",
                  \* "streamRead", "visitedAt"
  packetId,       \* the packet id passed to define
  definition,     \* the Definition passed to define
  twinDefinition, \* the same fields declared in another order
  defined,        \* what define returned: [error, packet]
  twinDefined,    \* what define returned for twinDefinition
  dataOut,        \* the value passed to write
  env,            \* the buffer backend in use
  written,        \* the final encoder state of write
  twinWritten,    \* the same for the twin packet
  tamper,         \* what happened to the buffer on its way to the reader
  dataIn,         \* the bytes passed to read or visit
  readArgs,       \* [offset, byteLength] passed to read
  result,         \* what read returned: [r, value]
  visitors,       \* the packets of the visitor list passed to visit
  visited,        \* what visit did: [err, calls]
  field,          \* a call of a Field... function and what it returned
  peerWritten,    \* the final encoder state of the other backend's write
  peerResult,     \* what the other backend's read returned
  serialized,     \* a write of a SequentialSerializer: [singlePass, w]
  stream          \* buffers laid end to end in dataIn: the values written,
                  \* where each starts, the bytes write wrote for each, and
                  \* the number of them read so far

vars == << pc, packetId, definition, twinDefinition, defined, twinDefined, dataOut,
           env, written, twinWritten, tamper, dataIn, readArgs, result,
           visitors, visited, field, peerWritten, peerResult, serialized,
           stream >>

NoStream == [values |-> << >>, starts |-> << >>, wrote |-> << >>, read |-> 0]
NoDefine == [error |-> "none", packet |-> << >>]
NoWrite == [err |-> FALSE, bytes |-> << >>, off |-> 0, byteLength |-> 0,
            maxByteLength |-> 0, grows |-> << >>, oob |-> FALSE]
NoRead == [r |-> [err |-> "", off |-> 0, last |-> -1, tags |-> << >>],
           value |-> NoValue]
NoTamper == [kind |-> "none", pos |-> 0, byte |-> 0]
NoVisit == [err |-> "", calls |-> << >>]
NoField == [fn |-> "", item |-> << >>, length |-> Num(0), flags |-> << >>,
            error |-> "none", def |-> << >>]
NoSerialized == [singlePass |-> FALSE, w |-> NoWrite]

Init ==
  /\ pc = "idle"
  /\ packetId = Num(0)
  /\ definition = << >>
  /\ twinDefinition = << >>
  /\ defined = NoDefine
  /\ twinDefined = NoDefine
  /\ dataOut = << >>
  /\ env = [backend |-> "dataview", fill |-> 0]
  /\ written = NoWrite
  /\ twinWritten = NoWrite
  /\ tamper = NoTamper
  /\ dataIn = << >>
  /\ readArgs = [offset |-> 0, byteLength |-> 0]
  /\ result = NoRead
  /\ visitors = << >>
  /\ visited = NoVisit
  /\ field = NoField
  /\ peerWritten = NoWrite
  /\ peerResult = NoRead
  /\ serialized = NoSerialized
  /\ stream = NoStream

\* BinaryPacket.define(packetId, definition), and the same call with the
\* fields declared in another order
DefineFrom(inputs) ==
  /\ pc = "idle"
  /\ \E in \in inputs :
       \E other \in OtherOrders(in.definition) :
         /\ packetId' = in.packetId
         /\ definition' = in.definition
         /\ twinDefinition' = other
         /\ defined' = define(in.packetId, in.definition)
         /\ twinDefined' = define(in.packetId, other)
         /\ pc' = IF defined'.error = "none" THEN "defined"
                  ELSE "defineFailed"
  /\ UNCHANGED << dataOut, env, written, twinWritten, tamper, dataIn,
                  readArgs, result, visitors, visited,
                  field, peerWritten, peerResult, serialized,
                  stream >>

Define == DefineFrom(DefineInputs)

\* the other backend, its memory holding the same
Peer(e) ==
  [backend |-> IF e.backend = "node" THEN "dataview" ELSE "node",
   fill |-> e.fill]

\* packet.writeNodeBuffer(dataOut) / packet.writeDataView(dataOut), and
\* the same call on the twin packet; the two calls get their memory
\* separately
Write ==
  /\ pc = "defined"
  /\ \E e \in Envs :
       \E e2 \in {x \in Envs : x.backend = e.backend} :
         \E v \in PacketValues(defined.packet[1]) :
           /\ env' = e
           /\ dataOut' = v
           /\ written' = writeBuffer(e, defined.packet[1], v)
           /\ twinWritten' = writeBuffer(e2, twinDefined.packet[1], v)
           /\ peerWritten' = writeBuffer(Peer(e), defined.packet[1], v)
  /\ pc' = "written"
  /\ UNCHANGED << packetId, definition, twinDefinition, defined, twinDefined, tamper,
                  dataIn, readArgs, result, visitors, visited,
                  field, peerResult, serialized,
                  stream >>

\* packet.readNodeBuffer(buffer) / packet.readDataView(buffer) of the
\* buffer write returned, with the default offset and byteLength
ReadBack ==
  /\ pc = "written"
  /\ ~written.err
  /\ dataIn' = written.bytes
  /\ readArgs' = [offset |-> 0, byteLength |-> Len(written.bytes)]
  /\ result' = readBuffer(env.backend, defined.packet[1], written.bytes,
                          0, Len(written.bytes))
  /\ peerResult' = readBuffer(Peer(env).backend, defined.packet[1],
                              written.bytes, 0, Len(written.bytes))
  /\ pc' = "read"
  /\ UNCHANGED << packetId, definition, twinDefinition, defined, twinDefined, dataOut,
                  env, written, twinWritten, tamper, visitors, visited,
                  field, peerWritten, serialized,
                  stream >>

\* ------------------------------------------------------------------------
\* Reading what arrives from a peer: the written buffer as it is, with one
\* byte changed, cut short, or with a byte in front of it
\* ------------------------------------------------------------------------
\* values a changed byte takes
TamperBytes == {0, 2, 255}
\* largest offset a read starts at, besides the end of the buffer
MaxReadOffset == 1

WireSubs == {Packet(2, << >>), Packet(2, << Entry("s", PrimDef(UNSIGNED_INT_8)) >>)}
WireKinds == {PrimDef(UNSIGNED_INT_8), StringDef,
              ArrayDef(PrimDef(UNSIGNED_INT_8), NoLength),
              ArrayDef(StringDef, NoLength)}
             \cup Wrap(WireSubs)
WireDefinitions == {<< >>} \cup {<< Entry("m", k) >> : k \in WireKinds}
WireInputs == {[packetId |-> TopId, definition |-> d] : d \in WireDefinitions}

DefineWire == DefineFrom(WireInputs)

Receive ==
  /\ pc = "written"
  /\ ~written.err
  /\ \/ /\ tamper' = NoTamper
        /\ dataIn' = written.bytes
     \/ \E pos \in 0..(Len(written.bytes) - 1) :
          \E b \in TamperBytes \ {written.bytes[pos + 1]} :
            /\ tamper' = [kind |-> "byte", pos |-> pos, byte |-> b]
            /\ dataIn' = Store(written.bytes, pos, << b >>)
     \/ \E n \in 0..(Len(written.bytes) - 1) :
          /\ tamper' = [kind |-> "cut", pos |-> n, byte |-> 0]
          /\ dataIn' = SubSeq(written.bytes, 1, n)
     \/ /\ tamper' = [kind |-> "shift", pos |-> 1, byte |-> 0]
        /\ dataIn' = << 0 >> \o written.bytes
  /\ pc' = "received"
  /\ UNCHANGED << packetId, definition, twinDefinition, defined, twinDefined, dataOut,
                  env, written, twinWritten, readArgs, result, visitors,
                  visited,
                  field, peerWritten, peerResult, serialized,
                  stream >>

\* packet.readNodeBuffer(dataIn, {offset}, byteLength) and the DataView
\* counterpart, the caller choosing the offset and the byteLength
ReadAt ==
  /\ pc = "received"
  /\ \E offset \in (0..MaxReadOffset) \cup {Len(dataIn)} :
       \E byteLength \in 0..Len(dataIn) :
         /\ readArgs' = [offset |-> offset, byteLength |-> byteLength]
         /\ result' = readBuffer(env.backend, defined.packet[1], dataIn,
                                 offset, byteLength)
  /\ pc' = "readAt"
  /\ UNCHANGED << packetId, definition, twinDefinition, defined, twinDefined, dataOut,
                  env, written, twinWritten, tamper, dataIn, visitors,
                  visited,
                  field, peerWritten, peerResult, serialized,
                  stream >>

\* BinaryPacket.visitNodeBuffer / visitDataView(dataIn, packet.visitor(...))
\* of what arrived
VisitAt ==
  /\ pc = "received"
  /\ visited' = visitBuffer(env.backend, dataIn, << defined.packet[1] >>)
  /\ pc' = "visitedAt"
  /\ UNCHANGED << packetId, definition, twinDefinition, defined, twinDefined,
                  dataOut, env, written, twinWritten, tamper, dataIn,
                  readArgs, result, visitors, field, peerWritten, peerResult,
                  serialized, stream >>

\* ------------------------------------------------------------------------
\* Dispatching a buffer of unknown type
\* ------------------------------------------------------------------------
\* longest visitor list
MaxVisitors == 3
\* longest buffer handed to visit
MaxVisitLen == 3
VisitBytes == {0, 1, 2, 3}
VisitPackets == {Packet(1, << >>),
                 Packet(2, << Entry("m", PrimDef(UNSIGNED_INT_8)) >>),
                 Packet(2, << Entry("m", StringDef) >>),
                 Packet(3, << >>)}

\* packet.visitor(onVisit) for each packet of the list the caller builds
Visitors ==
  /\ pc = "idle"
  /\ \E vs \in SeqsUpTo(VisitPackets, MaxVisitors) : visitors' = vs
  /\ pc' = "listening"
  /\ UNCHANGED << packetId, definition, twinDefinition, defined, twinDefined,
                  dataOut, env, written, twinWritten, tamper, dataIn,
                  readArgs, result, visited,
                  field, peerWritten, peerResult, serialized,
                  stream >>

\* BinaryPacket.visitNodeBuffer / visitDataView(dataIn, ...visitors)
Visit ==
  /\ pc = "listening"
  /\ \E backend \in Backends :
       \E bytes \in SeqsUpTo(VisitBytes, MaxVisitLen) :
         /\ env' = [backend |-> backend, fill |-> 0]
         /\ dataIn' = bytes
         /\ visited' = visitBuffer(backend, bytes, visitors)
  /\ pc' = "visited"
  /\ UNCHANGED << packetId, definition, twinDefinition, defined, twinDefined,
                  dataOut, written, twinWritten, tamper, readArgs, result,
                  visitors,
                  field, peerWritten, peerResult, serialized,
                  stream >>

\* ------------------------------------------------------------------------
\* Building a field with FieldFixedArray or FieldBitFlags, then a packet
\* of that one field
\* ------------------------------------------------------------------------
\* number of flag names the longest list given to FieldBitFlags has
MaxFlagNames == 9
FlagNames == << "f0", "f1", "f2", "f3", "f4", "f5", "f6", "f7", "f8", "f9" >>
FixedItems ==
  {PrimDef(t) : t \in 0..7}
  \cup {StringDef,
        PacketDef(Packet(2, << Entry("s", PrimDef(UNSIGNED_INT_8)) >>))}
\* lengths: integers, negative, fractional, not finite
FixedLengths ==
  {Num(n) : n \in 0..FixedLen}
  \cup {Num(-1), Half(1), Half(3), Half(-1), NaN, PosInfinity, NegInfinity}

\* FieldFixedArray(item, length) / FieldBitFlags(flags)
DeclareField ==
  /\ pc = "idle"
  /\ \/ \E item \in FixedItems :
          \E length \in FixedLengths :
            field' = [fn |-> "FieldFixedArray", item |-> << item >>,
                      length |-> length, flags |-> << >>]
                     @@ FieldFixedArray(item, length)
     \/ \E k \in 0..Min2(MaxFlagNames, Len(FlagNames)) :
          field' = [fn |-> "FieldBitFlags", item |-> << >>,
                    length |-> Num(0), flags |-> SubSeq(FlagNames, 1, k)]
                   @@ FieldBitFlags(SubSeq(FlagNames, 1, k))
  /\ pc' = "declared"
  /\ UNCHANGED << packetId, definition, twinDefinition, defined, twinDefined,
                  dataOut, env, written, twinWritten, tamper, dataIn,
                  readArgs, result, visitors, visited, peerWritten,
                  peerResult, serialized,
                  stream >>

\* the Definition entry the field built makes; a fixed array has a whole
\* number of elements
FieldDef ==
  IF field.fn = "FieldFixedArray"
    THEN ArrayDef(field.def[1].item, field.def[1].length.twice \div 2)
  ELSE field.def[1]

\* BinaryPacket.define(packetId, { m: field })
DefineField ==
  /\ pc = "declared"
  /\ field.error = "none"
  /\ field.fn = "FieldFixedArray" => NumIsInteger(field.length)
  /\ packetId' = TopId
  /\ definition' = << Entry("m", FieldDef) >>
  /\ twinDefinition' = definition'
  /\ defined' = define(TopId, definition')
  /\ twinDefined' = defined'
  /\ pc' = "defined"
  /\ UNCHANGED << dataOut, env, written, twinWritten, tamper, dataIn,
                  readArgs, result, visitors, visited, field, peerWritten,
                  peerResult, serialized,
                  stream >>

\* packet.readNodeBuffer / readDataView of a packet of bit flags whose
\* flags byte is any byte
ReadByte ==
  /\ pc = "defined"
  /\ definition[1].def.kind = "flags"
  /\ \E backend \in Backends :
       \E b \in 0..255 :
         /\ env' = [backend |-> backend, fill |-> 0]
         /\ dataIn' = << TopId.twice \div 2, b >>
         /\ readArgs' = [offset |-> 0, byteLength |-> 2]
         /\ result' = readBuffer(backend, defined.packet[1], dataIn', 0, 2)
  /\ pc' = "readByte"
  /\ UNCHANGED << packetId, definition, twinDefinition, defined, twinDefined,
                  dataOut, written, twinWritten, tamper, visitors, visited,
                  field, peerWritten, peerResult, serialized,
                  stream >>

\* ------------------------------------------------------------------------
\* Arrays: a packet with one array field, written with long arrays, with
\* arrays of another length than the fixed one declared, and through a
\* SequentialSerializer
\* ------------------------------------------------------------------------
\* "NOTE: As of now, dynamic arrays can have at most 256 elements."
MaxElements == 256
LongLengths == {0, 1, MaxElements - 1, MaxElements}

ArrayItems ==
  {PrimDef(UNSIGNED_INT_8), PrimDef(INT_16), StringDef,
   PacketDef(Packet(2, << Entry("s", PrimDef(UNSIGNED_INT_8)) >>))}
ArrayDefinitions ==
  {<< Entry("m", ArrayDef(item, length)) >> :
     item \in ArrayItems, length \in {NoLength, FixedLen}}

DefineArray ==
  DefineFrom({[packetId |-> TopId, definition |-> d] : d \in ArrayDefinitions})

\* the i-th element of the arrays written, and the array of the first n
ElementAt(def, i) ==
  IF def.item = "packet" THEN [s |-> i % 256]
  ELSE IF def.item = "string"
    THEN IF i % 2 = 1 THEN << 104, 105 >> ELSE << >>
  ELSE IF def.type = INT_16 THEN i - 100
  ELSE i % 256
ArrayOfLen(def, n) == [i \in 1..n |-> ElementAt(def, i)]

\* writeNodeBuffer / writeDataView of a dynamic array of up to MaxElements
\* elements, on either backend
WriteLong ==
  /\ pc = "defined"
  /\ definition[1].def.length = NoLength
  /\ \E e \in Envs :
       \E n \in LongLengths :
         /\ env' = e
         /\ dataOut' = [m |-> ArrayOfLen(definition[1].def, n)]
         /\ written' = writeBuffer(e, defined.packet[1], dataOut')
         /\ twinWritten' = written'
         /\ peerWritten' = writeBuffer(Peer(e), defined.packet[1], dataOut')
  /\ pc' = "written"
  /\ UNCHANGED << packetId, definition, twinDefinition, defined, twinDefined,
                  tamper, dataIn, readArgs, result, visitors, visited,
                  field, peerResult, serialized,
                  stream >>

\* writeNodeBuffer / writeDataView of a value whose fixed array has fewer
\* or more elements than declared
WriteCount ==
  /\ pc = "defined"
  /\ definition[1].def.length # NoLength
  /\ \E e \in Envs :
       \E n \in (0..(definition[1].def.length + 1))
                 \ {definition[1].def.length} :
         /\ env' = e
         /\ dataOut' = [m |-> ArrayOfLen(definition[1].def, n)]
         /\ written' = writeBuffer(e, defined.packet[1], dataOut')
         /\ twinWritten' = written'
         /\ peerWritten' = writeBuffer(Peer(e), defined.packet[1], dataOut')
  /\ pc' = "miscounted"
  /\ UNCHANGED << packetId, definition, twinDefinition, defined, twinDefined,
                  tamper, dataIn, readArgs, result, visitors, visited,
                  field, peerResult, serialized,
                  stream >>

\* writeNodeBuffer / writeDataView of { m: new SequentialSerializer(it, n) }
\* where it yields the n elements of an array, next to the write of the
\* array itself
WriteSerializer ==
  /\ pc = "defined"
  /\ definition[1].def.length = NoLength
  /\ \E e \in Envs :
       \E n \in 0..MaxArrayLen :
         \E singlePass \in BOOLEAN :
           /\ env' = e
           /\ dataOut' = [m |-> ArrayOfLen(definition[1].def, n)]
           /\ written' = writeBuffer(e, defined.packet[1], dataOut')
           /\ serialized' =
                [singlePass |-> singlePass,
                 w |-> writeSerializerBuffer(e, defined.packet[1],
                         SequentialSerializer(dataOut'.m, singlePass, n))]
  /\ pc' = "serialized"
  /\ UNCHANGED << packetId, definition, twinDefinition, defined, twinDefined,
                  twinWritten, tamper, dataIn, readArgs, result, visitors,
                  visited, field, peerWritten, peerResult,
                  stream >>

\* ------------------------------------------------------------------------
\* Strings: a packet with one string field, written with strings of
\* characters 0..255, up to and past the length where the bulk encoder
\* takes over
\* ------------------------------------------------------------------------
\* NUL, "A", DEL, U+0080, "e" with acute accent, "y" with diaeresis
Chars == {0, 65, 127, 128, 233, 255}
\* every string over Chars up to this length is written
MaxShort == 2
LongStringLengths == {SmallStringMax, SmallStringMax + 1}
\* long strings: one character c repeated, or c then "A" repeated
\* the three characters whose codes are the bytes of a UTF-8 byte order mark
ByteOrderMark == << 239, 187, 191 >>
Strings ==
  SeqsUpTo(Chars, MaxShort)
  \cup {ByteOrderMark, ByteOrderMark \o << 65 >>}
  \cup {[i \in 1..n |-> c] : n \in LongStringLengths, c \in Chars}
  \cup {[i \in 1..n |-> IF i = 1 THEN c ELSE 65] :
          n \in LongStringLengths, c \in Chars}

DefineString ==
  DefineFrom({[packetId |-> TopId,
               definition |-> << Entry("m", StringDef) >>]})

\* writeNodeBuffer / writeDataView of { m: str }, on either backend
WriteString ==
  /\ pc = "defined"
  /\ \E e \in Envs :
       \E str \in Strings :
         /\ env' = e
         /\ dataOut' = [m |-> str]
         /\ written' = writeBuffer(e, defined.packet[1], dataOut')
         /\ twinWritten' = written'
         /\ peerWritten' = writeBuffer(Peer(e), defined.packet[1], dataOut')
  /\ pc' = "written"
  /\ UNCHANGED << packetId, definition, twinDefinition, defined, twinDefined,
                  tamper, dataIn, readArgs, result, visitors, visited,
                  field, peerResult, serialized,
                  stream >>

\* ------------------------------------------------------------------------
\* Packets that share a nested packet, used again and again: any number of
\* write, read and visit calls in any order.  visitors holds the packets;
\* written, result and visited hold what the last call of each kind did
\* since the last write.
\* ------------------------------------------------------------------------
\* most packets in use together
MaxShared == 2
SharedSub == Packet(2, << Entry("s", PrimDef(UNSIGNED_INT_8)) >>)
SharedPackets ==
  {SharedSub,
   Packet(7, << Entry("m", PacketDef(SharedSub)) >>),
   Packet(8, << Entry("m", ArrayDef(PacketDef(SharedSub), NoLength)) >>),
   Packet(9, << Entry("m", OptionalDef(SharedSub)) >>)}

\* the packets are defined, the nested one first
Share ==
  /\ pc = "idle"
  /\ \E ps \in SeqsUpTo(SharedPackets, MaxShared) \ {<< >>} : visitors' = ps
  /\ pc' = "shared"
  /\ UNCHANGED << packetId, definition, twinDefinition, defined, twinDefined,
                  dataOut, env, written, twinWritten, tamper, dataIn,
                  readArgs, result, visited, field, peerWritten, peerResult,
                  serialized,
                  stream >>

\* writeNodeBuffer / writeDataView by one of the packets that also makes
\* the packet remember the size of what it wrote
WriteWith_Remembering ==
  /\ pc \in {"shared", "visitedWith"}
  /\ \E i \in 1..Len(visitors) :
       \E e \in Envs :
         \E v \in PacketValues(visitors[i]) :
           /\ env' = e
           /\ dataOut' = v
           /\ written' = writeBuffer(e, visitors[i], v)
           /\ dataIn' = written'.bytes
           /\ visitors' = [visitors EXCEPT
                             ![i].minimumByteLength = written'.off]
  /\ result' = NoRead
  /\ pc' = "shared"
  /\ UNCHANGED << packetId, definition, twinDefinition, defined,
                  twinDefined, twinWritten, tamper, readArgs, visited,
                  field, peerWritten, peerResult, serialized,
                  stream >>

\* writeNodeBuffer / writeDataView by one of the packets; the buffer is
\* what the calls that follow read
WriteWith ==
  /\ pc \in {"shared", "visitedWith"}
  /\ \E i \in 1..Len(visitors) :
       \E e \in Envs :
         \E v \in PacketValues(visitors[i]) :
           /\ env' = e
           /\ dataOut' = v
           /\ written' = writeBuffer(e, visitors[i], v)
           /\ dataIn' = written'.bytes
  /\ result' = NoRead
  /\ pc' = "shared"
  /\ UNCHANGED << packetId, definition, twinDefinition, defined,
                  twinDefined, twinWritten, tamper, readArgs, visitors,
                  visited, field, peerWritten, peerResult, serialized,
                  stream >>

\* readNodeBuffer / readDataView of the buffer by one of the packets
ReadWith ==
  /\ pc \in {"shared", "visitedWith"}
  /\ \E i \in 1..Len(visitors) :
       result' = readBuffer(env.backend, visitors[i], dataIn, 0, Len(dataIn))
  /\ pc' = "shared"
  /\ UNCHANGED << packetId, definition, twinDefinition, defined,
                  twinDefined, dataOut, env, written, twinWritten, tamper,
                  dataIn, readArgs, visitors, visited,
                  field, peerWritten, peerResult, serialized,
                  stream >>

\* visitNodeBuffer / visitDataView that does not invoke the handler it
\* invoked the call before
VisitWith_Remembering ==
  /\ pc \in {"shared", "visitedWith"}
  /\ LET outcome == visitBuffer(env.backend, dataIn, visitors)
     IN visited' = IF /\ visited.calls # << >>
                      /\ outcome.calls # << >>
                      /\ outcome.calls[1].index = visited.calls[1].index
                     THEN [outcome EXCEPT !.calls = << >>]
                   ELSE outcome
  /\ pc' = "visitedWith"
  /\ UNCHANGED << packetId, definition, twinDefinition, defined,
                  twinDefined, dataOut, env, written, twinWritten, tamper,
                  dataIn, readArgs, result, visitors,
                  field, peerWritten, peerResult, serialized,
                  stream >>

\* visitNodeBuffer / visitDataView of the buffer with all the packets;
\* visited is what the last of these calls did
VisitWith ==
  /\ pc \in {"shared", "visitedWith"}
  /\ visited' = visitBuffer(env.backend, dataIn, visitors)
  /\ pc' = "visitedWith"
  /\ UNCHANGED << packetId, definition, twinDefinition, defined,
                  twinDefined, dataOut, env, written, twinWritten, tamper,
                  dataIn, readArgs, result, visitors,
                  field, peerWritten, peerResult, serialized,
                  stream >>

\* ------------------------------------------------------------------------
\* A buffer that is written to and grown again and again, as write does
\* for dynamic arrays and optionals.
\* ------------------------------------------------------------------------
\* longest buffer
MaxCapacity == 18
\* first buffer lengths
MaxInitial == 3
\* bytes asked for by one growth
GrowAmounts == {0, 1, 7, 8}
\* the byte written at a position: no two positions alike
Stamp(position) == 17 + 10 * position

\* the buffer write starts from
Allocate ==
  /\ pc = "idle"
  /\ \E e \in Envs :
       \E n \in 1..MaxInitial :
         /\ env' = e
         /\ written' = [NoWrite EXCEPT !.bytes = Alloc(e, n),
                                       !.byteLength = n,
                                       !.maxByteLength = n]
  /\ pc' = "allocated"
  /\ UNCHANGED << packetId, definition, twinDefinition, defined, twinDefined,
                  dataOut, twinWritten, tamper, dataIn, readArgs, result,
                  visitors, visited, field, peerWritten, peerResult,
                  serialized,
                  stream >>

\* one byte is written at the cursor
Put ==
  /\ pc \in {"allocated", "grown"}
  /\ written.off < Len(written.bytes)
  /\ written' = PutPrim(env, written, UNSIGNED_INT_8, Stamp(written.off))
  /\ pc' = "allocated"
  /\ UNCHANGED << packetId, definition, twinDefinition, defined, twinDefined,
                  dataOut, env, twinWritten, tamper, dataIn, readArgs,
                  result, visitors, visited, field, peerWritten, peerResult,
                  serialized,
                  stream >>

\* byteLength and maxByteLength go up by n and the buffer grows when it
\* is shorter
Grow ==
  /\ pc \in {"allocated", "grown"}
  /\ \E n \in GrowAmounts :
       /\ written.maxByteLength + n <= MaxCapacity
       /\ written' = AddAndGrow(env, written, n)
  /\ pc' = "grown"
  /\ UNCHANGED << packetId, definition, twinDefinition, defined, twinDefined,
                  dataOut, env, twinWritten, tamper, dataIn, readArgs,
                  result, visitors, visited, field, peerWritten, peerResult,
                  serialized,
                  stream >>

\* ------------------------------------------------------------------------
\* The earlier revision: define, write, read back
\* ------------------------------------------------------------------------
FastSubs ==
  LET leaf == NewFastPacket(Num(2), << Entry("s", PrimDef(UNSIGNED_INT_8)) >>)
      list == NewFastPacket(Num(2), << Entry("s",
                ArrayDef(PrimDef(UNSIGNED_INT_8), NoLength)) >>)
  IN {NewFastPacket(Num(2), << >>), leaf, list,
      NewFastPacket(Num(3), << Entry("p", PacketDef(leaf)) >>),
      NewFastPacket(Num(3), << Entry("p", PacketDef(list)) >>)}
FastKinds ==
  {PrimDef(UNSIGNED_INT_8), PrimDef(INT_16),
   ArrayDef(PrimDef(INT_16), NoLength)}
  \cup {PacketDef(p) : p \in FastSubs}
  \cup {ArrayDef(PacketDef(p), NoLength) : p \in FastSubs}
FastDefinitions ==
  {<< >>}
  \cup {<< Entry("m", k) >> : k \in FastKinds}
  \cup {<< Entry(c, PrimDef(UNSIGNED_INT_8)), Entry("m", k) >> :
          k \in FastKinds, c \in {"a", "z"}}

\* BinaryPacket.define(7, definition)
DefineFast ==
  /\ pc = "idle"
  /\ \E d \in FastDefinitions :
       /\ definition' = d
       /\ defined' = [error |-> "none",
                      packet |-> << NewFastPacket(TopId, d) >>]
  /\ pc' = "fastDefined"
  /\ UNCHANGED << packetId, twinDefinition, twinDefined, dataOut, env,
                  written, twinWritten, tamper, dataIn, readArgs, result,
                  visitors, visited, field, peerWritten, peerResult,
                  serialized,
                  stream >>

\* packet.writeNodeBuffer(dataOut) / packet.writeDataView(dataOut)
WriteFast ==
  /\ pc = "fastDefined"
  /\ \E e \in Envs :
       \E v \in PacketValues(defined.packet[1]) :
         /\ env' = e
         /\ dataOut' = v
         /\ written' = writeFastBuffer(e, defined.packet[1], v)
  /\ pc' = "fastWritten"
  /\ UNCHANGED << packetId, definition, twinDefinition, defined, twinDefined,
                  twinWritten, tamper, dataIn, readArgs, result, visitors,
                  visited, field, peerWritten, peerResult, serialized,
                  stream >>

\* packet.readNodeBuffer(buffer) / packet.readDataView(buffer)
ReadFast ==
  /\ pc = "fastWritten"
  /\ ~written.err
  /\ dataIn' = written.bytes
  /\ result' = readBuffer(env.backend, defined.packet[1], written.bytes,
                          0, Len(written.bytes))
  /\ pc' = "fastRead"
  /\ UNCHANGED << packetId, definition, twinDefinition, defined, twinDefined,
                  dataOut, env, written, twinWritten, tamper, readArgs,
                  visitors, visited, field, peerWritten, peerResult,
                  serialized,
                  stream >>

\* ------------------------------------------------------------------------
\* Buffers that write returned, laid end to end in one buffer and read one
\* after the other with one offset pointer
\* ------------------------------------------------------------------------
\* most buffers laid end to end
MaxStream == 2

DefineStream == DefineFrom(WireInputs)

\* packet.writeNodeBuffer(dataOut) / packet.writeDataView(dataOut), the
\* buffer returned going behind those laid before
Lay ==
  /\ pc \in {"defined", "laid"}
  /\ Len(stream.values) < MaxStream
  /\ \E e \in {x \in Envs : pc = "laid" => x = env} :
       \E v \in PacketValues(defined.packet[1]) :
         /\ env' = e
         /\ written' = writeBuffer(e, defined.packet[1], v)
         /\ ~written'.err
         /\ dataIn' = dataIn \o written'.bytes
         /\ stream' = [stream EXCEPT !.values = Append(@, v),
                                     !.starts = Append(@, Len(dataIn)),
                                     !.wrote = Append(@, written'.off)]
  /\ pc' = "laid"
  /\ UNCHANGED << packetId, definition, twinDefinition, defined, twinDefined,
                  dataOut, twinWritten, tamper, readArgs, result, visitors,
                  visited, field, peerWritten, peerResult, serialized >>

\* packet.readNodeBuffer(dataIn, offsetPointer) / packet.readDataView(dataIn,
\* offsetPointer) with the offset pointer the read before left
ReadNext ==
  /\ pc \in {"laid", "streamRead"}
  /\ stream.read < Len(stream.values)
  /\ result.r.err = ""
  /\ readArgs' = [offset |-> result.r.off, byteLength |-> Len(dataIn)]
  /\ result' = readBuffer(env.backend, defined.packet[1], dataIn,
                          result.r.off, Len(dataIn))
  /\ stream' = [stream EXCEPT !.read = @ + 1]
  /\ pc' = "streamRead"
  /\ UNCHANGED << packetId, definition, twinDefinition, defined, twinDefined,
                  dataOut, env, written, twinWritten, tamper, dataIn,
                  visitors, visited, field, peerWritten, peerResult,
                  serialized >>

Next == Define \/ Write \/ ReadBack

Spec == Init /\ [][Next]_vars

NextWire == DefineWire \/ Write \/ Receive \/ ReadAt \/ VisitAt

SpecWire == Init /\ [][NextWire]_vars

NextVisit == Visitors \/ Visit

SpecVisit == Init /\ [][NextVisit]_vars

NextFields == DeclareField \/ DefineField \/ Write \/ ReadBack \/ ReadByte

SpecFields == Init /\ [][NextFields]_vars

NextArrays ==
  DefineArray \/ WriteLong \/ WriteCount \/ WriteSerializer \/ ReadBack

SpecArrays == Init /\ [][NextArrays]_vars

NextStrings == DefineString \/ WriteString \/ ReadBack

SpecStrings == Init /\ [][NextStrings]_vars

NextShared == Share \/ WriteWith \/ ReadWith \/ VisitWith

SpecShared == Init /\ [][NextShared]_vars

NextGrow == Allocate \/ Put \/ Grow

SpecGrow == Init /\ [][NextGrow]_vars

NextFast == DefineFast \/ WriteFast \/ ReadFast

SpecFast == Init /\ [][NextFast]_vars

NextStream == DefineStream \/ Lay \/ ReadNext

SpecStream == Init /\ [][NextStream]_vars

\* ------------------------------------------------------------------------
\* The wire format as the specification's table gives it, used to state
\* the properties: a sequence of [b, tag], b the byte and tag telling
\* whether the byte is a message's type tag.  The entries are taken in
\* the order of their names whatever order they are given in.
\* ------------------------------------------------------------------------
Plain(bs) == [i \in 1..Len(bs) |-> [b |-> bs[i], tag |-> FALSE]]
BytesOf(layout) == [i \in 1..Len(layout) |-> layout[i].b]
TagOffsets(layout) == {i - 1 : i \in {j \in 1..Len(layout) : layout[j].tag}}

RECURSIVE WireLayout(_, _, _)
RECURSIVE WireFields(_, _, _)
RECURSIVE WireField(_, _)
RECURSIVE WireItems(_, _, _, _)

WireItems(def, v, lo, hi) ==
  IF lo > hi THEN << >>
  ELSE IF lo = hi
    THEN IF def.item = "packet"
           THEN WireLayout(def.packet[1].packetId.twice \div 2,
                           def.packet[1].entries, v[lo])
         ELSE IF def.item = "string"
           THEN Plain(IntToBytesBE(Len(v[lo]), 2) \o v[lo])
         ELSE Plain(PrimBytes(def.type, v[lo]))
  ELSE WireItems(def, v, lo, (lo + hi) \div 2)
       \o WireItems(def, v, (lo + hi) \div 2 + 1, hi)

WireField(def, v) ==
  IF def.kind = "array"
    THEN (IF def.length = NoLength THEN Plain(<< Len(v) >>) ELSE << >>)
         \o WireItems(def, v, 1, Len(v))
  ELSE IF def.kind = "prim" THEN Plain(PrimBytes(def.type, v))
  ELSE IF def.kind = "string" THEN Plain(IntToBytesBE(Len(v), 2) \o v)
  ELSE IF def.kind = "flags"
    THEN Plain(<< FlagsByte(def.flags, v, Len(def.flags)) >>)
  ELSE IF def.kind = "optional"
    THEN IF v = << >> THEN Plain(<< 0 >>)
         ELSE Plain(<< 1 >>)
              \o WireLayout(def.packet[1].packetId.twice \div 2,
                            def.packet[1].entries, v[1])
  ELSE WireLayout(def.packet[1].packetId.twice \div 2,
                  def.packet[1].entries, v)

\* the fields whose names have rank 1..k, in rank order
WireFields(entries, v, k) ==
  IF k = 0 THEN << >>
  ELSE WireFields(entries, v, k - 1)
       \o (IF \E i \in 1..Len(entries) : entries[i].name = NameOrder[k]
             THEN WireField((CHOOSE e \in {entries[i] : i \in 1..Len(entries)} :
                               e.name = NameOrder[k]).def,
                            v[NameOrder[k]])
           ELSE << >>)

WireLayout(tagByte, entries, v) ==
  << [b |-> tagByte, tag |-> TRUE] >> \o WireFields(entries, v, Len(NameOrder))

\* the layout of the value written, from the definition as declared
WrittenLayout == WireLayout(packetId.twice \div 2, definition, dataOut)

IsPrefixOf(bs, bytes) ==
  Len(bs) <= Len(bytes) /\ SubSeq(bytes, 1, Len(bs)) = bs

\* field-by-field equality of a written value v and a read value r
RECURSIVE SameValue(_, _, _)
SameField(def, v, has, r) ==
  IF def.kind = "optional"
    THEN IF v = << >> THEN ~has
         ELSE has /\ SameValue(def.packet[1], v[1], r)
  ELSE IF def.kind = "packet" THEN has /\ SameValue(def.packet[1], v, r)
  ELSE IF def.kind = "array" /\ def.item = "packet"
    THEN has /\ Len(v) = Len(r)
         /\ \A i \in 1..Len(v) : SameValue(def.packet[1], v[i], r[i])
  ELSE has /\ v = r

SameValue(pkt, v, r) ==
  \A i \in 1..Len(pkt.entries) :
    LET e == pkt.entries[i]
    IN SameField(e.def, v[e.name], e.name \in DOMAIN r,
                 IF e.name \in DOMAIN r THEN r[e.name] ELSE << >>)

\* the packet id passed to define is an integer in [0,255]
ValidId == NumIsInteger(packetId) /\ ~NumLt(packetId, 0) /\ ~NumGt(packetId, 255)

\* ------------------------------------------------------------------------
\* Properties
\* ------------------------------------------------------------------------

\* C1 (round trip): for every packet with a valid id and every conforming
\* value, write returns a buffer, and reading that buffer with the same
\* packet succeeds and returns a value equal to the written one field by
\* field.
C1_RoundTrip ==
  /\ (pc = "written" /\ ValidId => ~written.err)
  /\ (pc = "read" /\ ValidId =>
        /\ result.r.err = ""
        /\ SameValue(defined.packet[1], dataOut, result.value))

\* C2 (wire layout): the buffer write returns starts with the type tag
\* followed by the encodings of the entries in the order of their names,
\* back to back, nested messages inline with their own tag, dynamic arrays
\* behind a 1-byte count, fixed arrays without a prefix.
C2_WireLayout ==
  pc = "written" /\ ValidId =>
    /\ ~written.err
    /\ IsPrefixOf(BytesOf(WrittenLayout), written.bytes)

\* C3 (declaration order): two packets defined with the same id and the
\* same fields declared in different orders have identical entry lists and
\* write byte-identical buffers for equal values.
C3_DeclarationOrder ==
  /\ (pc \in {"defined", "written", "read"} =>
        twinDefined.packet[1].entries = defined.packet[1].entries)
  /\ (pc = "written" /\ ~written.err =>
        ~twinWritten.err /\ twinWritten.bytes = written.bytes)

\* C9 (exact output length): the buffer write returns is as long as the
\* bytes the encoder wrote, the final value of the offset, with no
\* trailing unwritten bytes.
C9_ExactLength ==
  pc = "written" /\ ValidId /\ ~written.err =>
    Len(written.bytes) = written.off

\* C10 (packet id range): define fails with a RangeError for every packet
\* id that is not an integer in [0,255] and succeeds for every integer in
\* [0,255].
C10_DefineRange ==
  pc \in {"defined", "defineFailed"} =>
    (defined.error = "RangeError" <=> ~ValidId)

\* the tag comparisons a read made that found another byte than the id
TagMismatches(r) ==
  {i \in 1..Len(r.tags) : ~NumEqInt(r.tags[i].want, r.tags[i].got)}

\* C4 (tag validation): whenever the byte at a position where a message is
\* expected (top level, required nested, optional present, array element)
\* differs from that message's packet id, read throws and returns no
\* value: both when the read itself compared a differing byte, and when a
\* tag byte of the written buffer was changed before a read of the whole
\* buffer.
C4_TagValidation ==
  pc = "readAt" =>
    /\ (TagMismatches(result.r) # {} =>
          result.r.err = "TypeMismatch" /\ result.value = NoValue)
    /\ (/\ tamper.kind = "byte"
        /\ tamper.pos \in TagOffsets(WrittenLayout)
        /\ readArgs.offset = 0
        /\ readArgs.byteLength = Len(dataIn)
        => result.r.err = "TypeMismatch" /\ result.value = NoValue)

\* the tag byte of a nested message was changed and the read threw
C4_Witness ==
  /\ pc = "readAt"
  /\ tamper.kind = "byte"
  /\ tamper.pos > 0
  /\ tamper.pos \in TagOffsets(WrittenLayout)
  /\ readArgs.offset = 0
  /\ readArgs.byteLength = Len(dataIn)
  /\ result.r.err = "TypeMismatch"
  /\ result.value = NoValue

\* C5 (bounds precondition): for every packet, offset and byteLength, read
\* fails whenever byteLength minus offset, the bytes available from the
\* offset, is less than the packet's minimumByteLength; in particular a
\* read at an offset equal to the buffer length fails.
C5_BoundsPrecondition ==
  pc = "readAt" =>
    /\ (readArgs.byteLength - readArgs.offset
          < defined.packet[1].minimumByteLength => result.r.err # "")
    /\ (readArgs.offset = Len(dataIn) => result.r.err # "")

\* C6 (bounds safety): a read given a byteLength never reads a byte at an
\* index at or beyond it, and a buffer shorter than minimumByteLength
\* always makes the read fail.
C6_BoundsSafety ==
  pc = "readAt" =>
    /\ result.r.last < readArgs.byteLength
    /\ (Len(dataIn) < defined.packet[1].minimumByteLength
          => result.r.err # "")

\* the visitors whose packet id is the first byte of the buffer
Matching ==
  {i \in 1..Len(visitors) :
     Len(dataIn) > 0 /\ NumEqInt(visitors[i].packetId, dataIn[1])}
Earliest == CHOOSE i \in Matching : \A j \in Matching : i <= j
DirectRead(i) == readBuffer(env.backend, visitors[i], dataIn, 0, Len(dataIn))

\* C7 as stated (dispatch correctness): visit invokes exactly one handler,
\* once, that of a visitor whose packet id equals byte 0, with the value a
\* direct read of the buffer with that packet returns; when no visitor's
\* id equals byte 0, no handler is invoked and visit returns normally.
C7_AsStated ==
  pc = "visited" =>
    IF Matching # {}
      THEN /\ Len(visited.calls) = 1
           /\ visited.calls[1].index \in Matching
           /\ DirectRead(visited.calls[1].index).r.err = ""
           /\ visited.calls[1].value = DirectRead(visited.calls[1].index).value
    ELSE visited.err = "" /\ visited.calls = << >>

\* C7 amended (dispatch correctness): for a non-empty buffer, when no
\* visitor's id equals byte 0, no handler is invoked and visit returns
\* normally; otherwise, V being the earliest visitor whose id equals byte
\* 0, if the direct read of the buffer with V's packet succeeds visit
\* invokes exactly V's handler, once, with the value read, and if that
\* read throws visit throws and invokes no handler.  For an empty buffer
\* visit throws unless the list is empty.
C7_Dispatch ==
  pc = "visited" =>
    IF Len(dataIn) = 0
      THEN /\ visited.calls = << >>
           /\ (visited.err = "" <=> visitors = << >>)
    ELSE IF Matching = {}
      THEN visited.err = "" /\ visited.calls = << >>
    ELSE IF DirectRead(Earliest).r.err = ""
      THEN /\ visited.err = ""
           /\ visited.calls = << [index |-> Earliest,
                                  value |-> DirectRead(Earliest).value] >>
    ELSE visited.err # "" /\ visited.calls = << >>

\* three visitors with ids 1, 2, 3 and a buffer of id 2: the second
\* handler got the packet read
C7_Witness ==
  /\ pc = "visited"
  /\ Len(visitors) = 3
  /\ \A i \in 1..3 : NumEqInt(visitors[i].packetId, i)
  /\ Len(dataIn) = 2
  /\ dataIn[1] = 2
  /\ visited.err = ""
  /\ Len(visited.calls) = 1
  /\ visited.calls[1].index = 2
  /\ visited.calls[1].value = [m |-> dataIn[2]]

\* C8 (dispatch ordering): when several visitors of the list have the id
\* the buffer carries, no handler but that of the earliest of them is
\* invoked.
C8_DispatchOrdering ==
  pc = "visited" /\ Cardinality(Matching) >= 2 =>
    \A k \in 1..Len(visited.calls) : visited.calls[k].index = Earliest

\* two visitors with different packets of id 2, an unrelated one first:
\* the handler of the earlier of the two was invoked
C8_Witness ==
  /\ pc = "visited"
  /\ Len(visitors) = 3
  /\ Matching = {2, 3}
  /\ visitors[2] # visitors[3]
  /\ Len(visited.calls) = 1
  /\ visited.calls[1].index = 2

\* C11 (fixed array length): FieldFixedArray fails for every length that
\* is not a non-negative finite integer and returns [item, length] for
\* every non-negative integer length, 0 included.
C11_FixedArrayLength ==
  pc = "declared" /\ field.fn = "FieldFixedArray" =>
    /\ field.error = "none"
         <=> (NumIsInteger(field.length) /\ ~NumLt(field.length, 0))
    /\ field.error = "none"
         => field.def = << [item |-> field.item[1],
                            length |-> field.length] >>

\* C12 (flag count): FieldBitFlags fails for more than 8 flag names and
\* succeeds for 0 to 8; no packet written or read has a flags field of
\* more than 8 flags.
C12_BitFlagsLimit ==
  /\ (pc = "declared" /\ field.fn = "FieldBitFlags" =>
        /\ field.error # "none" <=> Len(field.flags) > 8
        /\ field.error = "none" => field.def[1].flags = field.flags)
  /\ (pc \in {"defined", "written", "read", "readByte"}
      /\ field.fn = "FieldBitFlags" =>
        /\ definition[1].def.kind = "flags"
        /\ Len(definition[1].def.flags) <= 8
        /\ defined.packet[1].entries[1].def.flags = field.flags)

\* nine flag names were given and FieldBitFlags threw
C12_Witness ==
  /\ pc = "declared"
  /\ field.fn = "FieldBitFlags"
  /\ Len(field.flags) = 9
  /\ field.error = "Error"
  /\ field.def = << >>

\* bit i, from the least significant, of a byte
BitOf(byte, i) == (byte \div (2 ^ i)) % 2 = 1

\* C14 (bit flags): a flags field of K <= 8 names is written as one byte
\* whose bit i is set exactly when the flag named flags[i] is true, the
\* bits from K on being 0; reading any byte gives, for each i < K, the
\* boolean that is bit i of the byte, whatever the bits from K on.
C14_BitFlags ==
  /\ (pc = "written" /\ field.fn = "FieldBitFlags" =>
        /\ ~written.err
        /\ Len(written.bytes) = 2
        /\ written.off = 2
        /\ \A i \in 0..7 :
             BitOf(written.bytes[2], i)
               <=> (i < Len(field.flags) /\ dataOut.m[field.flags[i + 1]]))
  /\ (pc = "readByte" =>
        /\ result.r.err = ""
        /\ DOMAIN result.value.m
             = {field.flags[i] : i \in 1..Len(field.flags)}
        /\ \A i \in 1..Len(field.flags) :
             result.value.m[field.flags[i]] = BitOf(dataIn[2], i - 1))

\* three flags read from a byte with all eight bits set
C14_Witness ==
  /\ pc = "readByte"
  /\ Len(field.flags) = 3
  /\ dataIn[2] = 255
  /\ result.r.err = ""
  /\ \A i \in 1..3 : result.value.m[field.flags[i]]

\* the least size of a packet as the specification counts it, from the
\* definition as declared
RECURSIVE LeastSize(_)
RECURSIVE LeastSizeUpTo(_, _)
ItemSize(def) ==
  IF def.item = "packet" THEN LeastSize(def.packet[1].entries)
  ELSE IF def.item = "string" THEN 2
  ELSE << 1, 2, 4, 1, 2, 4, 4, 8 >>[def.type + 1]
FieldSize(def) ==
  IF def.kind = "array"
    THEN IF def.length = NoLength THEN 1 ELSE def.length * ItemSize(def)
  ELSE IF def.kind = "prim" THEN << 1, 2, 4, 1, 2, 4, 4, 8 >>[def.type + 1]
  ELSE IF def.kind = "flags" THEN 1
  ELSE IF def.kind = "string" THEN 2
  ELSE IF def.kind = "optional" THEN 1
  ELSE LeastSize(def.packet[1].entries)
LeastSizeUpTo(entries, n) ==
  IF n = 0 THEN 0
  ELSE LeastSizeUpTo(entries, n - 1) + FieldSize(entries[n].def)
LeastSize(entries) == 1 + LeastSizeUpTo(entries, Len(entries))

\* C13 (minimumByteLength): it is 1 for the id byte plus, per entry, the
\* width of a primitive, 1 for a dynamic array, N times the element size
\* for a fixed array of N elements, 1 for bit flags, 2 for a string, 1
\* for an optional packet and the nested packet's minimumByteLength for a
\* required one; 1 for an empty definition.
C13_MinimumByteLength ==
  pc \in {"defined", "written", "read"} =>
    /\ defined.packet[1].minimumByteLength = LeastSize(definition)
    /\ definition = << >> => defined.packet[1].minimumByteLength = 1

\* a fixed array of packets next to another field
C13_Witness ==
  /\ pc = "defined"
  /\ Len(definition) = 2
  /\ \E i \in 1..2 :
       /\ definition[i].def.kind = "array"
       /\ definition[i].def.item = "packet"
       /\ definition[i].def.length = FixedLen
       /\ definition[i].def.packet[1].minimumByteLength > 1
  /\ defined.packet[1].minimumByteLength > 1 + 2 * FixedLen

\* the declared field of a name, and the bytes the fields next to "m" take
Declares(name) == \E i \in 1..Len(definition) : definition[i].name = name
DefOf(name) ==
  (CHOOSE e \in {definition[i] : i \in 1..Len(definition)} : e.name = name).def
BytesOfField(name) ==
  IF Declares(name) THEN BytesOf(WireField(DefOf(name), dataOut[name]))
  ELSE << >>
OptionalM == Declares("m") /\ DefOf("m").kind = "optional"
\* what was read says the wrapped packet is there, or failed reading it
Present(r) == r.r.err # "" \/ "m" \in DOMAIN r.value

\* C15 (optional packet): unset, the field is the one byte 0 and reading
\* it leaves the field out of the result; set, it is a non-zero byte and
\* then the wrapped packet in full (id byte and entries), 1 + the wrapped
\* length in all, and reading it gives the wrapped value; every non-zero
\* presence byte reads as present.
C15_Optional ==
  LET m == BytesOfField("m")
      from == 1 + Len(BytesOfField("a"))
      to == from + Len(m) + Len(BytesOfField("z"))
  IN /\ pc \in {"written", "read", "received", "readAt"} /\ OptionalM =>
          /\ ~written.err
          /\ written.off = to
          /\ to <= Len(written.bytes)
          /\ SubSeq(written.bytes, from + 1, to) = m \o BytesOfField("z")
          /\ dataOut.m = << >> => m = << 0 >>
          /\ dataOut.m # << >> =>
               /\ m[1] # 0
               /\ Len(m) = 1 + Len(WireLayout(0, DefOf("m").packet[1].entries,
                                              dataOut.m[1]))
     /\ pc = "read" /\ OptionalM =>
          /\ result.r.err = ""
          /\ dataOut.m = << >> => "m" \notin DOMAIN result.value
          /\ dataOut.m # << >> =>
               /\ "m" \in DOMAIN result.value
               /\ SameValue(DefOf("m").packet[1], dataOut.m[1], result.value.m)
     /\ pc = "readAt" /\ OptionalM /\ tamper.kind = "byte" /\ tamper.pos = from
        /\ readArgs = [offset |-> 0, byteLength |-> Len(dataIn)] =>
          /\ tamper.byte # 0 => Present(result)
          /\ tamper.byte # 0 /\ dataOut.m # << >> =>
               /\ result.r.err = ""
               /\ SameValue(DefOf("m").packet[1], dataOut.m[1], result.value.m)
          /\ tamper.byte = 0 => ~Present(result)

\* C16 (dynamic array limit): a dynamic array of 0 to 256 elements is
\* written as a 1-byte count and its elements, and reads back as an array
\* of the same length and elements, on both backends.
C16_DynamicArrayLimit ==
  /\ pc \in {"written", "read"} /\ definition[1].def.length = NoLength
     /\ Len(dataOut.m) <= MaxElements =>
       /\ ~written.err
       /\ ~peerWritten.err
       /\ Len(written.bytes) >= 2
       /\ written.bytes[2] = Len(dataOut.m)
       /\ SubSeq(written.bytes, 1, written.off) = BytesOf(WrittenLayout)
       /\ peerWritten.bytes = written.bytes
  /\ pc = "read" /\ definition[1].def.length = NoLength
     /\ Len(dataOut.m) <= MaxElements =>
       /\ result.r.err = ""
       /\ Len(result.value.m) = Len(dataOut.m)
       /\ SameValue(defined.packet[1], dataOut, result.value)
       /\ peerResult = result

\* C19 (fixed array, wrong element count): writing a value whose fixed
\* array has fewer or more elements than declared fails with an error; no
\* buffer is returned with the array cut, padded or partly unwritten.
C19_FixedArrayCount ==
  pc = "miscounted" => written.err

\* C20 (SequentialSerializer): writing a dynamic array field from a
\* SequentialSerializer of length n over an iterable that yields e1..en
\* gives the bytes that writing the array [e1..en] gives, for elements
\* that are primitives, packets or strings, single-pass iterables
\* included.
C20_SerializerEquivalence ==
  pc = "serialized" =>
    /\ serialized.w.err = written.err
    /\ serialized.w.bytes = written.bytes
    /\ serialized.w.off = written.off

\* the definition is the one string field m
OnlyString == Len(definition) = 1 /\ definition[1].def.kind = "string"

\* C17 (strings): a string is written as its length in 2 bytes and then
\* one byte per character, the byte being the character's code, and reads
\* back equal, for every string of characters 0..255 of any length, the
\* lengths above 64 included.
C17_Strings ==
  /\ pc \in {"written", "read"} /\ OnlyString =>
       /\ ~written.err
       /\ written.off = 3 + Len(dataOut.m)
       /\ Len(written.bytes) >= written.off
       /\ SubSeq(written.bytes, 2, 3) = IntToBytesBE(Len(dataOut.m), 2)
       /\ SubSeq(written.bytes, 4, written.off) = dataOut.m
  /\ pc = "read" /\ OnlyString =>
       /\ result.r.err = ""
       /\ result.value.m = dataOut.m

\* C18 (backend equivalence): writeNodeBuffer and writeDataView give the
\* same bytes for the same packet and value, and the buffer either of them
\* wrote reads to the same value through readNodeBuffer and readDataView.
C18_BackendEquivalence ==
  /\ pc \in {"written", "read"} =>
       /\ written.err = peerWritten.err
       /\ ~written.err => written.bytes = peerWritten.bytes
  /\ pc = "read" =>
       /\ result.r.err = peerResult.r.err
       /\ result.r.err = "" => result.value = peerResult.value

C22_GrowthPreserves ==
  [][(pc \in {"allocated", "grown"} /\ pc' = "grown")
       => (Len(written'.bytes) >= Len(written.bytes)
           /\ SubSeq(written'.bytes, 1, Len(written.bytes)) = written.bytes
           /\ written'.off = written.off)]_vars

\* a buffer of the DataView backend has just grown from 9 bytes, all of
\* them written, and a Node one from 3 written bytes to 10
C22_Witness ==
  /\ pc = "grown"
  /\ written.grows # << >>
  /\ LET last == written.grows[Len(written.grows)]
     IN \/ /\ env.backend = "dataview"
           /\ last = << 9, 17 >>
           /\ written.off = 9
           /\ written.bytes[9] = Stamp(8)
        \/ /\ env.backend = "node"
           /\ last = << 3, 10 >>
           /\ written.off = 3
           /\ written.bytes[3] = Stamp(2)

\* the bytes each growth of an encode of data is to add, in the order
\* write comes to them: count * element size for a non-empty dynamic array
\* of primitives, count * the element's minimumByteLength for one of
\* packets and then what its elements ask for, the wrapped packet's
\* minimumByteLength for a set optional and then what the wrapped packet
\* asks for, nothing for anything else
RECURSIVE Growths(_, _, _)
RECURSIVE GrowthsOfItems(_, _, _)
GrowthsOfItems(pkt, items, n) ==
  IF n = 0 THEN << >>
  ELSE GrowthsOfItems(pkt, items, n - 1)
       \o Growths(pkt, items[n], Len(pkt.entries))
GrowthsOfEntry(def, data) ==
  IF def.kind = "array"
    THEN IF Len(data) = 0 \/ def.item = "string" THEN << >>
         ELSE IF def.item = "packet"
           THEN (IF def.length = NoLength
                   THEN << Len(data) * LeastSize(def.packet[1].entries) >>
                 ELSE << >>)
                \o GrowthsOfItems(def.packet[1], data, Len(data))
         ELSE IF def.length = NoLength
           THEN << Len(data) * ItemSize(def) >>
         ELSE << >>
  ELSE IF def.kind = "optional"
    THEN IF data = << >> THEN << >>
         ELSE << LeastSize(def.packet[1].entries) >>
              \o Growths(def.packet[1], data[1], Len(def.packet[1].entries))
  ELSE IF def.kind = "packet"
    THEN Growths(def.packet[1], data, Len(def.packet[1].entries))
  ELSE << >>
Growths(pkt, data, n) ==
  IF n = 0 THEN << >>
  ELSE Growths(pkt, data, n - 1)
       \o GrowthsOfEntry(pkt.entries[n].def, data[pkt.entries[n].name])

\* C23 (exact growth): the buffer is reallocated once for each non-empty
\* dynamic array of primitives, by count * element size; once for a
\* non-empty dynamic array of packets, by count * the element's
\* minimumByteLength, before its elements are written; once for a set
\* optional; not at all for an empty dynamic array or an unset optional.
\* Each reallocation starts from the capacity the one before left and adds
\* exactly the bytes needed: the capacity is never multiplied and never
\* goes down.
C23_ExactGrowth ==
  pc \in {"written", "read"} =>
    LET needed == Growths(defined.packet[1], dataOut, Len(definition))
        grows == written.grows
    IN /\ Len(grows) <= Len(needed)
       /\ ~written.err => Len(grows) = Len(needed)
       /\ \A g \in 1..Len(grows) :
            /\ grows[g][2] = grows[g][1] + needed[g]
            /\ grows[g][2] > grows[g][1]
            /\ g > 1 => grows[g][1] = grows[g - 1][2]
       /\ grows # << >> => Len(written.bytes) = grows[Len(grows)][2]

\* a dynamic array of two packets, the first holding a dynamic array of
\* two primitives, took three reallocations
C23_Witness ==
  /\ pc = "written"
  /\ ~written.err
  /\ Declares("m") /\ DefOf("m").kind = "array" /\ DefOf("m").item = "packet"
  /\ DefOf("m").length = NoLength
  /\ Len(dataOut["m"]) = 2
  /\ Len(written.grows) = 3
  /\ written.grows[1][2] - written.grows[1][1] = 4
  /\ written.grows[2][2] - written.grows[2][1] = 2

\* the packet has an array among its entries or among those of a packet
\* nested in it, however deep
RECURSIVE HoldsArray(_)
HoldsArray(pkt) ==
  \E i \in 1..Len(pkt.entries) :
    \/ pkt.entries[i].def.kind = "array"
    \/ /\ pkt.entries[i].def.kind = "packet"
       /\ HoldsArray(pkt.entries[i].def.packet[1])

\* C24 (path selection, earlier revision): canFastWrite is true exactly
\* when the packet has no array entry and every packet nested in it has
\* canFastWrite true, that is when no array is held at any depth; write
\* takes the fast path exactly when canFastWrite is true, and fastWrite is
\* never called on a packet that holds an array at any depth.
C24_PathSelection ==
  pc \in {"fastDefined", "fastWritten", "fastRead"} =>
    LET this == defined.packet[1]
        own == {this.entries[i].def : i \in 1..Len(this.entries)}
    IN /\ this.canFastWrite <=>
            /\ \A def \in own : def.kind # "array"
            /\ \A def \in own :
                 def.kind = "packet" => def.packet[1].canFastWrite
       /\ this.canFastWrite <=> ~HoldsArray(this)
       /\ pc # "fastDefined" =>
            /\ written.calls # << >>
            /\ written.calls[1].packet = this
            /\ written.calls[1].fn = "fastWrite" <=> this.canFastWrite
            /\ \A c \in 1..Len(written.calls) :
                 written.calls[c].fn = "fastWrite" =>
                   ~HoldsArray(written.calls[c].packet)

\* a packet whose nested packet nests a packet with an array went the slow
\* way, and one whose nested packets hold no array the fast way
C24_Witness ==
  /\ pc = "fastWritten"
  /\ Declares("m") /\ DefOf("m").kind = "packet"
  /\ DefOf("m").packet[1].entries # << >>
  /\ DefOf("m").packet[1].entries[1].def.kind = "packet"
  /\ \/ /\ HoldsArray(DefOf("m").packet[1])
        /\ Len(written.calls) = 3
        /\ written.calls[3].fn = "slowWrite"
     \/ /\ ~HoldsArray(DefOf("m").packet[1])
        /\ Len(written.calls) = 3
        /\ written.calls[3].fn = "fastWrite"

\* C25 (nested packets on the fast path, earlier revision): for a packet
\* with canFastWrite true and a nested packet among its fields, write
\* leaves the cursor at minimumByteLength, the nested packet being written
\* in full (id byte, then entries), and the buffer reads back as the
\* value written.
C25_FastNested ==
  LET this == defined.packet[1]
      nests == \E i \in 1..Len(this.entries) :
                 this.entries[i].def.kind = "packet"
  IN /\ (pc \in {"fastWritten", "fastRead"} /\ this.canFastWrite /\ nests =>
           /\ ~written.err
           /\ written.off = this.minimumByteLength)
     /\ (pc = "fastRead" /\ this.canFastWrite /\ nests =>
           /\ result.r.err = ""
           /\ SameValue(this, dataOut, result.value))

\* C27 (visit keeps no state): whatever visit calls were made before with
\* the same visitors, a visit call leaves the visitors as they were, and
\* which handler it invokes and with what value, or that it invokes none,
\* is determined by the buffer of this call and the visitors alone; the
\* handler invoked is that of a visitor whose id is byte 0 of the buffer
\* and its value is what that visitor's packet reads from offset 0.
VisitKeepsNoState ==
  pc' = "visitedWith" =>
    /\ visitors' = visitors
    /\ visited' = visitBuffer(env.backend, dataIn, visitors)
    /\ \A c \in 1..Len(visited'.calls) :
         LET i == visited'.calls[c].index
             direct == readBuffer(env.backend, visitors[i], dataIn,
                                  0, Len(dataIn))
         IN /\ NumEqInt(visitors[i].packetId, dataIn[1])
            /\ direct.r.err = ""
            /\ visited'.calls[c].value = direct.value
C26_OptionalRoom ==
  pc \in {"written", "read"} /\ OptionalM /\ dataOut["m"] # << >> =>
    /\ ~written.err
    /\ ~written.oob
    /\ written.off <= Len(written.bytes)

\* C28 (write safety): in every write of a conforming value by a packet
\* with a valid id, every store of bytes happens inside the buffer as it
\* is then, so that no store fails or is dropped and the cursor ends
\* inside the buffer; strings inside the elements of arrays of packets,
\* strings inside optionals and fixed arrays of packets that hold dynamic
\* arrays included.
C28_WriteSafety ==
  pc \in {"written", "read"} /\ ValidId =>
    /\ ~written.err
    /\ ~written.oob
    /\ written.off <= Len(written.bytes)

\* C29 (read consumes what write wrote): a read of a buffer that write
\* returned succeeds and advances the offset pointer by exactly the bytes
\* write wrote, so that of several such buffers laid end to end each is
\* read in turn with the one offset pointer, from where it starts to where
\* the next starts, and gives the value written.
C29_ReadConsumes ==
  pc = "streamRead" =>
    /\ result.r.err = ""
    /\ readArgs.offset = stream.starts[stream.read]
    /\ result.r.off = readArgs.offset + stream.wrote[stream.read]
    /\ SameValue(defined.packet[1], stream.values[stream.read],
                 result.value)

\* the read failed on the packet's own first check, byteLength + offset
\* against minimumByteLength, or, that passed, on its own id byte
OwnCheckFails ==
  LET this == defined.packet[1]
  IN \/ readArgs.byteLength + readArgs.offset < this.minimumByteLength
     \/ /\ readArgs.offset < Len(dataIn)
        /\ ~NumEqInt(this.packetId, dataIn[readArgs.offset + 1])
ReadFailureKeepsOffset ==
  pc = "readAt" /\ OwnCheckFails =>
    /\ result.r.err # ""
    /\ result.value = NoValue
    /\ result.r.off = readArgs.offset
CallKeepsBuffer == pc = "received" => dataIn' = dataIn

\* C30 (a failed read leaves the offset pointer alone): when read fails on
\* the packet's own length check or on its own id byte, the offset pointer
\* of the caller is what it was before the call; and no read or visit
\* call, failed or not, changes the buffer it is given.
C30_FailureKeepsOffset ==
  []ReadFailureKeepsOffset /\ [][CallKeepsBuffer]_vars

\* a read at offset 1 found a byte that is not the packet's id and threw,
\* the offset pointer still 1
C30_Witness ==
  /\ pc = "readAt"
  /\ readArgs.offset = 1
  /\ readArgs.byteLength = Len(dataIn)
  /\ Len(dataIn) > 2
  /\ result.r.err = "TypeMismatch"
  /\ Len(result.r.tags) = 1
  /\ result.r.off = 1

====
